---- MODULE Spec2Model ----
(***************************************************************************)
(* A model of the calculator tool of openai_app, of the tool registry and  *)
(* its API routes, and of the conversation history of the agent service.   *)
(*                                                                         *)
(* The calculator (src/src/openai_app/tools/calculator.py) is              *)
(* SafeMathEvaluator, which                                                *)
(* parses a text with Python's ast.parse(text.strip(), mode='eval') and    *)
(* walks the tree with two whitelist tables, and CalculatorTool.execute /  *)
(* the function tool `calculate`, which format the result or the error.    *)
(*                                                                         *)
(* A text is a sequence of lexical tokens (the concrete text is the tokens *)
(* joined by blanks; the token " " is a blank of its own).  Python values  *)
(* are records tagged with their type; a float is an exact rational n/d    *)
(* (IEEE rounding is not modelled; pi and e are 22/7 and 19/7, and an      *)
(* irrational square root is cut to two decimals).  The grammar and the    *)
(* messages are those of Python 3.11.  The interpreter's two limits that  *)
(* an expression can meet, the recursion limit and the digit limit of     *)
(* str() on an int, are modelled scaled down (RecursionLimit,             *)
(* IntMaxStrDigits).                                                       *)
(*                                                                         *)
(* Spec calls the entry points on one text; SpecShared interleaves the     *)
(* steps of several callers of the one shared calculator_tool; SpecWalk    *)
(* follows one walk of _eval call by call; SpecRegistry calls the methods  *)
(* of tool_registry and the tools routes in any order; SpecAgent           *)
(* interleaves the queries of several callers of agent_service.            *)
(***************************************************************************)
EXTENDS Integers, Sequences, FiniteSets, TLC

VARIABLES
    expression,   \* the text handed to the calculator (a sequence of tokens)
    operators,    \* SafeMathEvaluator.operators: operator tag -> callable
    functions,    \* SafeMathEvaluator.functions: identifier -> value
    pc,           \* "ready" before a call, else the entry point that ran
    outcome,      \* what SafeMathEvaluator.evaluate did on `expression`
    response,     \* what the entry point handed back to its caller
    tasks,        \* the calls in progress on the shared calculator_tool
    walk,         \* one walk of _eval over a tree, call by call
    registry,     \* tool_registry: the ToolRegistry instance
    reply,        \* what the last call on the registry, API or service answered
    service       \* agent_service: the AgentService instance

vars ==
    <<expression, operators, functions, pc, outcome, response, tasks, walk,
      registry, reply, service>>

----------------------------------------------------------------------------
(* Bounds of the model. *)

\* longest text (in tokens) enumerated exhaustively over Alphabet
MaxLen == 3

\* the nested calls of _eval the interpreter's recursion limit leaves room
\* for (sys.getrecursionlimit() less the frames of the callers)
RecursionLimit == 6

\* the callers that use the shared calculator_tool at the same time
NumTasks == 2

\* the digits of the longest int that str() converts: the interpreter's
\* sys.int_info.default_max_str_digits (4300), scaled down
IntMaxStrDigits == 8

\* the entries the conversation history of the agent service grows to
MaxHistory == 2

----------------------------------------------------------------------------
(* Lexical tokens. *)

IntLiteral ==
    ("0" :> 0) @@ ("1" :> 1) @@ ("2" :> 2) @@ ("3" :> 3) @@ ("4" :> 4) @@
    ("5" :> 5) @@ ("6" :> 6) @@ ("7" :> 7) @@ ("10" :> 10) @@ ("15" :> 15) @@
    ("16" :> 16) @@ ("30" :> 30) @@ ("42" :> 42) @@ ("100" :> 100) @@
    ("144" :> 144)

StrLiteral ==
    ("'s'" :> <<"s">>) @@ ("'rm -rf'" :> <<"r", "m", " ", "-", "r", "f">>)

WhitelistNames ==
    {"abs", "round", "min", "max", "sum", "sqrt", "sin", "cos", "tan", "log",
     "log10", "exp", "ceil", "floor", "pi", "e"}

OtherNames == {"x", "os", "system", "invalid_function", "unknown_var"}

NameTokens == WhitelistNames \cup OtherNames

\* the tokens of the exhaustively enumerated texts
Alphabet ==
    {"0", "2", "sqrt", "x", "'s'", "(", ")", "[", "]", ",", ".",
     "+", "-", "*", "/", "%", "<", "|", "~", " "}

----------------------------------------------------------------------------
(* Python values.  t is the type's name; an int or bool is n, a float is   *)
(* the rational n/d in lowest terms with d > 0; a str holds its characters *)
(* in items, a list or tuple its elements; a function holds its __name__   *)
(* in s.                                                                   *)

Val(t, n, d, s, items) == [t |-> t, n |-> n, d |-> d, s |-> s, items |-> items]

IntV(n) == Val("int", n, 1, "", <<>>)
BoolV(b) == Val("bool", IF b THEN 1 ELSE 0, 1, "", <<>>)
StrV(chars) == Val("str", 0, 1, "", chars)
ListV(items) == Val("list", 0, 1, "", items)
TupleV(items) == Val("tuple", 0, 1, "", items)
FuncV(name) == Val("builtin_function_or_method", 0, 1, name, <<>>)
NoneV == Val("NoneType", 0, 1, "", <<>>)

Abs(n) == IF n < 0 THEN -n ELSE n

RECURSIVE Gcd(_, _)
Gcd(a, b) == IF b = 0 THEN a ELSE Gcd(b, a % b)

\* floor(a / b) for any sign of a and b # 0
FloorDiv(a, b) == IF b < 0 THEN (-a) \div (-b) ELSE a \div b

FloatV(n, d) ==
    LET g == Gcd(Abs(n), Abs(d))
        sgn == IF d < 0 THEN -1 ELSE 1
    IN Val("float", sgn * (n \div g), sgn * (d \div g), "", <<>>)

IsReal(v) == v.t \in {"int", "bool", "float"}
IsIntegral(v) == v.t \in {"int", "bool"}
IsSequence(v) == v.t \in {"str", "list", "tuple"}

\* a callable() that answers True for every value
AnyValueCallable(v) == TRUE

\* callable(v)
Callable(v) == v.t = "builtin_function_or_method"

\* the value of a literal token
LiteralValue(t) ==
    IF t \in DOMAIN IntLiteral THEN IntV(IntLiteral[t])
    ELSE IF t = "True" THEN BoolV(TRUE)
    ELSE StrV(StrLiteral[t])

----------------------------------------------------------------------------
(* Syntax trees: the nodes ast.parse builds.  k is the node class, s its   *)
(* payload (an identifier, an operator class, an attribute name), c its    *)
(* child nodes, kw the values of a Call's keywords, v a Constant's value.  *)

Node(k, s, c) == [k |-> k, s |-> s, c |-> c, kw |-> <<>>, v |-> NoneV]

CallNode(func, args, keywords) ==
    [k |-> "Call", s |-> "", c |-> <<func>> \o args, kw |-> keywords, v |-> NoneV]

ConstantNode(val) ==
    [k |-> "Constant", s |-> "", c |-> <<>>, kw |-> <<>>, v |-> val]

NoNode == Node("None", "", <<>>)

BinOpTag ==
    ("+" :> "Add") @@ ("-" :> "Sub") @@ ("*" :> "Mult") @@ ("/" :> "Div") @@
    ("//" :> "FloorDiv") @@ ("%" :> "Mod") @@ ("**" :> "Pow") @@
    ("|" :> "BitOr")

UnaryOpTag == ("+" :> "UAdd") @@ ("-" :> "USub") @@ ("~" :> "Invert")

----------------------------------------------------------------------------
(* The parser: Python's expression grammar restricted to the tokens above. *)
(* Each Parse operator reads from position i and answers [ok, node, pos],  *)
(* pos being the position after what it read.                              *)

Tok(toks, i) == IF i <= Len(toks) THEN toks[i] ELSE "EOF"

POk(n, i) == [ok |-> TRUE, node |-> n, pos |-> i]
PFail == [ok |-> FALSE, node |-> NoNode, pos |-> 0]

RECURSIVE ParseExpression(_, _)
RECURSIVE ParseElems(_, _, _, _, _)
RECURSIVE ParseArgs(_, _, _, _, _, _)
RECURSIVE ParseTrailers(_, _, _)
RECURSIVE ParseFactor(_, _)
RECURSIVE ParseStrings(_, _, _)
RECURSIVE ParseBitOr(_, _)

\* STRING+ : adjacent string literals are one Constant
ParseStrings(toks, i, acc) ==
    IF Tok(toks, i) \in DOMAIN StrLiteral
    THEN ParseStrings(toks, i + 1, acc \o StrLiteral[Tok(toks, i)])
    ELSE POk(ConstantNode(StrV(acc)), i)

\* the node of a unary construct whose operand was read as r
UnaryOf(k, s, r) ==
    IF r.ok THEN POk(Node(k, s, <<r.node>>), r.pos) ELSE PFail

\* the BinOp of left and the operand read as r
BinOpOf(tag, left, r) ==
    IF r.ok THEN POk(Node("BinOp", tag, <<left, r.node>>), r.pos) ELSE PFail

\* one element of a display: '*' bitwise_or | expression
ParseElem(toks, i) ==
    IF Tok(toks, i) = "*" THEN UnaryOf("Starred", "", ParseBitOr(toks, i + 1))
    ELSE ParseExpression(toks, i)

\* after the element read as r: ',' and more elements, or the closer
ElemsAfter(toks, closer, acc, comma, r) ==
    IF ~r.ok THEN PFail
    ELSE IF Tok(toks, r.pos) = closer
    THEN POk(Node("Elems", IF comma THEN "," ELSE "", Append(acc, r.node)),
             r.pos + 1)
    ELSE IF Tok(toks, r.pos) # "," THEN PFail
    ELSE IF Tok(toks, r.pos + 1) = closer
    THEN POk(Node("Elems", ",", Append(acc, r.node)), r.pos + 2)
    ELSE ParseElems(toks, r.pos + 1, closer, Append(acc, r.node), TRUE)

\* elem (',' elem)* [','] closer ; node.c holds the elements and node.s is
\* "," when a comma was read
ParseElems(toks, i, closer, acc, comma) ==
    ElemsAfter(toks, closer, acc, comma, ParseElem(toks, i))

\* a parenthesised expression, or a tuple when a comma was read
ParenOf(r) ==
    IF ~r.ok THEN PFail
    ELSE IF r.node.s = "," THEN POk(Node("Tuple", "", r.node.c), r.pos)
    ELSE IF r.node.c[1].k = "Starred" THEN PFail
    ELSE POk(r.node.c[1], r.pos)

\* '(' ... ')' : the empty tuple, a parenthesised expression or a tuple
ParseParen(toks, i) ==
    IF Tok(toks, i + 1) = ")" THEN POk(Node("Tuple", "", <<>>), i + 2)
    ELSE ParenOf(ParseElems(toks, i + 1, ")", <<>>, FALSE))

ListOf(r) == IF r.ok THEN POk(Node("List", "", r.node.c), r.pos) ELSE PFail

\* '[' ... ']' : a list display
ParseList(toks, i) ==
    IF Tok(toks, i + 1) = "]" THEN POk(Node("List", "", <<>>), i + 2)
    ELSE ListOf(ParseElems(toks, i + 1, "]", <<>>, FALSE))

ParseAtom(toks, i) ==
    IF Tok(toks, i) \in DOMAIN IntLiteral \cup {"True"}
    THEN POk(ConstantNode(LiteralValue(Tok(toks, i))), i + 1)
    ELSE IF Tok(toks, i) \in DOMAIN StrLiteral THEN ParseStrings(toks, i, <<>>)
    ELSE IF Tok(toks, i) \in NameTokens
    THEN POk(Node("Name", Tok(toks, i), <<>>), i + 1)
    ELSE IF Tok(toks, i) = "(" THEN ParseParen(toks, i)
    ELSE IF Tok(toks, i) = "[" THEN ParseList(toks, i)
    ELSE PFail

\* after the argument read as r, of form "pos" (positional), "*", "=" (a
\* NAME '=' keyword) or "**": ',' and more arguments, or ')'
ArgsAfter(toks, func, args, keywords, seen, form, r) ==
    IF ~r.ok THEN PFail
    ELSE LET a == CASE form = "pos" -> Append(args, r.node)
                    [] form = "*" ->
                         Append(args, Node("Starred", "", <<r.node>>))
                    [] OTHER -> args
             k == IF form \in {"=", "**"} THEN Append(keywords, r.node)
                  ELSE keywords
             s == IF form = "**" \/ seen = "**" THEN "**"
                  ELSE IF form = "=" THEN "=" ELSE seen
         IN IF Tok(toks, r.pos) = ")" THEN POk(CallNode(func, a, k), r.pos + 1)
            ELSE IF Tok(toks, r.pos) # "," THEN PFail
            ELSE IF Tok(toks, r.pos + 1) = ")"
            THEN POk(CallNode(func, a, k), r.pos + 2)
            ELSE ParseArgs(toks, r.pos + 1, func, a, k, s)

\* the arguments of a call, read up to and including ')': positional
\* arguments, '*' arguments, NAME '=' keywords and '**' keywords; a
\* positional argument may not follow a keyword, nor a '*' argument a '**'
ParseArgs(toks, i, func, args, keywords, seen) ==
    IF (Tok(toks, i) = "*" /\ seen = "**")
       \/ (Tok(toks, i) \notin {"*", "**"} /\ seen # ""
           /\ ~(Tok(toks, i) \in NameTokens /\ Tok(toks, i + 1) = "="))
    THEN PFail
    ELSE ArgsAfter(toks, func, args, keywords, seen,
             IF Tok(toks, i) \in {"*", "**"} THEN Tok(toks, i)
             ELSE IF Tok(toks, i) \in NameTokens /\ Tok(toks, i + 1) = "="
             THEN "=" ELSE "pos",
             ParseExpression(toks,
                 IF Tok(toks, i) \in {"*", "**"} THEN i + 1
                 ELSE IF Tok(toks, i) \in NameTokens /\ Tok(toks, i + 1) = "="
                 THEN i + 2 ELSE i))

\* the trailers that follow what was read as r
TrailersAfter(toks, r) ==
    IF r.ok THEN ParseTrailers(toks, r.node, r.pos) ELSE PFail

\* the Subscript of left and the slices read as r
SubscriptOf(left, r) ==
    IF r.ok THEN POk(Node("Subscript", "", <<left>> \o r.node.c), r.pos)
    ELSE PFail

\* ('.' NAME | '(' args ')' | '[' slices ']')* after the primary `left`
ParseTrailers(toks, left, i) ==
    IF Tok(toks, i) = "."
    THEN IF Tok(toks, i + 1) \in NameTokens
         THEN ParseTrailers(toks,
                  Node("Attribute", Tok(toks, i + 1), <<left>>), i + 2)
         ELSE PFail
    ELSE IF Tok(toks, i) = "("
    THEN TrailersAfter(toks,
             IF Tok(toks, i + 1) = ")" THEN POk(CallNode(left, <<>>, <<>>), i + 2)
             ELSE ParseArgs(toks, i + 1, left, <<>>, <<>>, ""))
    ELSE IF Tok(toks, i) = "["
    THEN TrailersAfter(toks,
             SubscriptOf(left, ParseElems(toks, i + 1, "]", <<>>, FALSE)))
    ELSE POk(left, i)

\* primary: atom trailers
ParsePrimary(toks, i) == TrailersAfter(toks, ParseAtom(toks, i))

PowerAfter(toks, l) ==
    IF ~l.ok THEN PFail
    ELSE IF Tok(toks, l.pos) # "**" THEN l
    ELSE BinOpOf("Pow", l.node, ParseFactor(toks, l.pos + 1))

\* power: primary ['**' factor]
ParsePower(toks, i) == PowerAfter(toks, ParsePrimary(toks, i))

\* factor: ('+' | '-' | '~') factor | power
ParseFactor(toks, i) ==
    IF Tok(toks, i) \in DOMAIN UnaryOpTag
    THEN UnaryOf("UnaryOp", UnaryOpTag[Tok(toks, i)], ParseFactor(toks, i + 1))
    ELSE ParsePower(toks, i)

\* (op factor)* after the term read as l: the operators associate to the left
RECURSIVE ParseTermRest(_, _)
ParseTermRest(toks, l) ==
    IF ~l.ok THEN PFail
    ELSE IF Tok(toks, l.pos) \in {"*", "/", "//", "%"}
    THEN ParseTermRest(toks,
             BinOpOf(BinOpTag[Tok(toks, l.pos)], l.node,
                     ParseFactor(toks, l.pos + 1)))
    ELSE l

\* term: factor (('*' | '/' | '//' | '%') factor)*
ParseTerm(toks, i) == ParseTermRest(toks, ParseFactor(toks, i))

RECURSIVE ParseSumRest(_, _)
ParseSumRest(toks, l) ==
    IF ~l.ok THEN PFail
    ELSE IF Tok(toks, l.pos) \in {"+", "-"}
    THEN ParseSumRest(toks,
             BinOpOf(BinOpTag[Tok(toks, l.pos)], l.node,
                     ParseTerm(toks, l.pos + 1)))
    ELSE l

\* sum: term (('+' | '-') term)*
ParseSum(toks, i) == ParseSumRest(toks, ParseTerm(toks, i))

RECURSIVE ParseBitOrRest(_, _)
ParseBitOrRest(toks, l) ==
    IF ~l.ok THEN PFail
    ELSE IF Tok(toks, l.pos) = "|"
    THEN ParseBitOrRest(toks, BinOpOf("BitOr", l.node, ParseSum(toks, l.pos + 1)))
    ELSE l

\* bitwise_or: sum ('|' sum)*
ParseBitOr(toks, i) == ParseBitOrRest(toks, ParseSum(toks, i))

\* the Compare of left (or of the chain `left` already is) and r
CompareOf(left, first, r) ==
    IF r.ok
    THEN POk(Node("Compare", "Lt",
                  (IF first THEN <<left>> ELSE left.c) \o <<r.node>>), r.pos)
    ELSE PFail

\* ('<' bitwise_or)* after what was read as l; one Compare node for a chain
RECURSIVE ParseCompareRest(_, _, _)
ParseCompareRest(toks, first, l) ==
    IF ~l.ok THEN PFail
    ELSE IF Tok(toks, l.pos) = "<"
    THEN ParseCompareRest(toks, FALSE,
             CompareOf(l.node, first, ParseBitOr(toks, l.pos + 1)))
    ELSE l

\* expression: bitwise_or ('<' bitwise_or)*
ParseExpression(toks, i) == ParseCompareRest(toks, TRUE, ParseBitOr(toks, i))

\* (',' expression)* [','] and the end of input, after the items read
RECURSIVE ParseTopRest(_, _, _)
ParseTopRest(toks, items, r) ==
    IF ~r.ok THEN PFail
    ELSE IF Tok(toks, r.pos) = "EOF"
    THEN IF items = <<>> THEN r
         ELSE POk(Node("Tuple", "", Append(items, r.node)), r.pos)
    ELSE IF Tok(toks, r.pos) # "," THEN PFail
    ELSE IF Tok(toks, r.pos + 1) = "EOF"
    THEN POk(Node("Tuple", "", Append(items, r.node)), r.pos + 1)
    ELSE ParseTopRest(toks, Append(items, r.node),
                      ParseExpression(toks, r.pos + 1))

\* eval input: expression (',' expression)* [','] and then the end of input
ParseEval(toks) == ParseTopRest(toks, <<>>, ParseExpression(toks, 1))

\* str.strip(): the text without its leading and trailing blanks
RECURSIVE Strip(_)
Strip(text) ==
    IF text = <<>> THEN text
    ELSE IF Head(text) = " " THEN Strip(Tail(text))
    ELSE IF text[Len(text)] = " " THEN Strip(SubSeq(text, 1, Len(text) - 1))
    ELSE text

\* the tokenizer skips the blanks between tokens
Tokenize(text) == SelectSeq(text, LAMBDA t : t # " ")

\* ast.parse(expression.strip(), mode='eval')
AstParse(text) == ParseEval(Tokenize(Strip(text)))

----------------------------------------------------------------------------
(* The callables of the two whitelist tables, as Python defines them on    *)
(* the values above.  An application answers [ok, val, exc, msg]: a value, *)
(* or the class and the text of the exception it raises.  A case whose     *)
(* result the rationals cannot express is answered as "Unmodelled".        *)

ROk(v) == [ok |-> TRUE, val |-> v, exc |-> "", msg |-> ""]
RErr(exc, msg) == [ok |-> FALSE, val |-> NoneV, exc |-> exc, msg |-> msg]
Unmodelled(what) == RErr("Unmodelled", what)

\* an int when both operands are integral, else a float
Number(a, b, n, d) ==
    IF IsIntegral(a) /\ IsIntegral(b) THEN IntV(n \div d) ELSE FloatV(n, d)

RECURSIVE IPow(_, _)
IPow(b, k) == IF k = 0 THEN 1 ELSE b * IPow(b, k - 1)

RECURSIVE Repeat(_, _)
Repeat(items, k) == IF k <= 0 THEN <<>> ELSE items \o Repeat(items, k - 1)

Unsupported(sym, a, b) ==
    RErr("TypeError", "unsupported operand type(s) for " \o sym \o ": '"
                       \o a.t \o "' and '" \o b.t \o "'")

\* operator.add
OpAdd(a, b) ==
    IF IsReal(a) /\ IsReal(b)
    THEN ROk(Number(a, b, a.n * b.d + b.n * a.d, a.d * b.d))
    ELSE IF IsSequence(a)
    THEN IF b.t = a.t THEN ROk(Val(a.t, 0, 1, "", a.items \o b.items))
         ELSE RErr("TypeError", "can only concatenate " \o a.t \o " (not \""
                                \o b.t \o "\") to " \o a.t)
    ELSE Unsupported("+", a, b)

\* operator.sub
OpSub(a, b) ==
    IF IsReal(a) /\ IsReal(b)
    THEN ROk(Number(a, b, a.n * b.d - b.n * a.d, a.d * b.d))
    ELSE Unsupported("-", a, b)

\* operator.mul
OpMul(a, b) ==
    IF IsReal(a) /\ IsReal(b) THEN ROk(Number(a, b, a.n * b.n, a.d * b.d))
    ELSE IF IsSequence(a) /\ IsIntegral(b)
    THEN ROk(Val(a.t, 0, 1, "", Repeat(a.items, b.n)))
    ELSE IF IsSequence(b) /\ IsIntegral(a)
    THEN ROk(Val(b.t, 0, 1, "", Repeat(b.items, a.n)))
    ELSE IF IsSequence(a)
    THEN RErr("TypeError",
              "can't multiply sequence by non-int of type '" \o b.t \o "'")
    ELSE IF IsSequence(b)
    THEN RErr("TypeError",
              "can't multiply sequence by non-int of type '" \o a.t \o "'")
    ELSE Unsupported("*", a, b)

\* a division that answers nan (kept as the float 0/1 marked "nan") when the
\* divisor is zero, where operator.truediv raises
OpTrueDivNan(a, b) ==
    IF ~(IsReal(a) /\ IsReal(b)) THEN Unsupported("/", a, b)
    ELSE IF b.n = 0 THEN ROk(Val("float", 0, 1, "nan", <<>>))
    ELSE ROk(FloatV(a.n * b.d, a.d * b.n))

\* operator.truediv
OpTrueDiv(a, b) ==
    IF ~(IsReal(a) /\ IsReal(b)) THEN Unsupported("/", a, b)
    ELSE IF b.n = 0
    THEN RErr("ZeroDivisionError",
              IF IsIntegral(a) /\ IsIntegral(b) THEN "division by zero"
              ELSE "float division by zero")
    ELSE ROk(FloatV(a.n * b.d, a.d * b.n))

\* operator.floordiv
OpFloorDiv(a, b) ==
    IF ~(IsReal(a) /\ IsReal(b)) THEN Unsupported("//", a, b)
    ELSE IF b.n = 0
    THEN RErr("ZeroDivisionError",
              IF IsIntegral(a) /\ IsIntegral(b)
              THEN "integer division or modulo by zero"
              ELSE "float floor division by zero")
    ELSE ROk(Number(a, b, FloorDiv(a.n * b.d, a.d * b.n), 1))

\* operator.mod: the remainder of floor division, or str % args
OpMod(a, b) ==
    IF a.t = "str"
    THEN IF b.t = "list" \/ (b.t = "tuple" /\ b.items = <<>>) THEN ROk(a)
         ELSE RErr("TypeError",
                   "not all arguments converted during string formatting")
    ELSE IF ~(IsReal(a) /\ IsReal(b)) THEN Unsupported("%", a, b)
    ELSE IF b.n = 0
    THEN RErr("ZeroDivisionError",
              IF IsIntegral(a) /\ IsIntegral(b) THEN "integer modulo by zero"
              ELSE "float modulo")
    ELSE LET q == FloorDiv(a.n * b.d, a.d * b.n)
         IN ROk(Number(a, b, a.n * b.d - q * b.n * a.d, a.d * b.d))

\* operator.pow
OpPow(a, b) ==
    IF ~(IsReal(a) /\ IsReal(b)) THEN Unsupported("** or pow()", a, b)
    ELSE IF b.d # 1
    THEN IF a.n = 0 /\ b.n > 0 THEN ROk(FloatV(0, 1))
         ELSE IF a.n = 0
         THEN RErr("ZeroDivisionError",
                   "0.0 cannot be raised to a negative power")
         ELSE Unmodelled("a power with a fractional exponent")
    ELSE IF b.n >= 0
    THEN ROk(Number(a, b, IPow(a.n, b.n), IPow(a.d, b.n)))
    ELSE IF a.n = 0
    THEN RErr("ZeroDivisionError", "0.0 cannot be raised to a negative power")
    ELSE ROk(FloatV(IPow(a.d, -b.n), IPow(a.n, -b.n)))

\* operator.neg
OpNeg(a) ==
    IF IsReal(a) THEN ROk(Number(a, a, -a.n, a.d))
    ELSE RErr("TypeError", "bad operand type for unary -: '" \o a.t \o "'")

\* operator.pos
OpPos(a) ==
    IF IsReal(a) THEN ROk(Number(a, a, a.n, a.d))
    ELSE RErr("TypeError", "bad operand type for unary +: '" \o a.t \o "'")

\* the code points of the characters of the string literals
CharOrd ==
    (" " :> 32) @@ ("-" :> 45) @@ ("f" :> 102) @@ ("m" :> 109) @@
    ("r" :> 114) @@ ("s" :> 115)

\* a == b
RECURSIVE PyEq(_, _)
PyEq(a, b) ==
    IF IsReal(a) /\ IsReal(b) THEN a.n * b.d = b.n * a.d
    ELSE IF a.t # b.t THEN FALSE
    ELSE IF a.t = "builtin_function_or_method" THEN a.s = b.s
    ELSE IF a.t = "str" THEN a.items = b.items
    ELSE /\ Len(a.items) = Len(b.items)
         /\ \A i \in 1..Len(a.items) : PyEq(a.items[i], b.items[i])

\* a < b: "lt", "ge", or "err" when the two types have no order
RECURSIVE PyLess(_, _)
PyLess(a, b) ==
    IF IsReal(a) /\ IsReal(b)
    THEN IF a.n * b.d < b.n * a.d THEN "lt" ELSE "ge"
    ELSE IF a.t # b.t \/ ~IsSequence(a) THEN "err"
    ELSE LET m == IF Len(a.items) < Len(b.items) THEN Len(a.items)
                  ELSE Len(b.items)
             differ == {i \in 1..m :
                          IF a.t = "str" THEN a.items[i] # b.items[i]
                          ELSE ~PyEq(a.items[i], b.items[i])}
         IN IF differ = {}
            THEN IF Len(a.items) < Len(b.items) THEN "lt" ELSE "ge"
            ELSE LET i == CHOOSE j \in differ : \A k \in differ : j <= k
                 IN IF a.t = "str"
                    THEN IF CharOrd[a.items[i]] < CharOrd[b.items[i]]
                         THEN "lt" ELSE "ge"
                    ELSE PyLess(a.items[i], b.items[i])

\* the items an iteration over v yields (the characters of a str are strs)
IterItems(v) ==
    IF v.t = "str" THEN [i \in 1..Len(v.items) |-> StrV(<<v.items[i]>>)]
    ELSE v.items

NotIterable(v) ==
    RErr("TypeError", "'" \o v.t \o "' object is not iterable")

\* min / max over the items: the first item that no later item beats
RECURSIVE Extreme(_, _, _, _)
Extreme(name, best, items, i) ==
    IF i > Len(items) THEN ROk(best)
    ELSE LET x == items[i]
             c == IF name = "max" THEN PyLess(best, x) ELSE PyLess(x, best)
         IN IF c = "err"
            THEN RErr("TypeError",
                      "'" \o (IF name = "max" THEN ">" ELSE "<")
                      \o "' not supported between instances of '"
                      \o x.t \o "' and '" \o best.t \o "'")
            ELSE Extreme(name, IF c = "lt" THEN x ELSE best, items, i + 1)

\* the builtins min and max
FnMinMax(name, args) ==
    IF args = <<>>
    THEN RErr("TypeError", name \o " expected at least 1 argument, got 0")
    ELSE IF Len(args) = 1 /\ ~IsSequence(args[1]) THEN NotIterable(args[1])
    ELSE LET items == IF Len(args) = 1 THEN IterItems(args[1]) ELSE args
         IN IF items = <<>>
            THEN RErr("ValueError", name \o "() arg is an empty sequence")
            ELSE Extreme(name, items[1], items, 2)

RECURSIVE SumFrom(_, _, _)
SumFrom(acc, items, i) ==
    IF i > Len(items) THEN ROk(acc)
    ELSE LET r == OpAdd(acc, items[i])
         IN IF r.ok THEN SumFrom(r.val, items, i + 1) ELSE r

\* the builtin sum
FnSum(args) ==
    IF args = <<>>
    THEN RErr("TypeError", "sum() takes at least 1 positional argument (0 given)")
    ELSE IF Len(args) > 2
    THEN RErr("TypeError", "sum() takes at most 2 arguments ("
                           \o ToString(Len(args)) \o " given)")
    ELSE IF ~IsSequence(args[1]) THEN NotIterable(args[1])
    ELSE IF Len(args) = 2 /\ args[2].t = "str"
    THEN RErr("TypeError", "sum() can't sum strings [use ''.join(seq) instead]")
    ELSE SumFrom(IF Len(args) = 2 THEN args[2] ELSE IntV(0),
                 IterItems(args[1]), 1)

\* the builtin abs
FnAbs(args) ==
    IF Len(args) # 1
    THEN RErr("TypeError", "abs() takes exactly one argument ("
                           \o ToString(Len(args)) \o " given)")
    ELSE IF IsReal(args[1])
    THEN ROk(Number(args[1], args[1], Abs(args[1].n), args[1].d))
    ELSE RErr("TypeError", "bad operand type for abs(): '" \o args[1].t \o "'")

\* the nearest integer to n/d, a tie going to the even one
RoundHalfEven(n, d) ==
    LET q == FloorDiv(n, d)
        r2 == 2 * (n - q * d)
    IN IF r2 < d THEN q
       ELSE IF r2 > d THEN q + 1
       ELSE IF q % 2 = 0 THEN q ELSE q + 1

\* the builtin round
FnRound(args) ==
    IF args = <<>>
    THEN RErr("TypeError", "round() missing required argument 'number' (pos 1)")
    ELSE IF Len(args) > 2
    THEN RErr("TypeError", "round() takes at most 2 arguments ("
                           \o ToString(Len(args)) \o " given)")
    ELSE IF ~IsReal(args[1])
    THEN RErr("TypeError",
              "type " \o args[1].t \o " doesn't define __round__ method")
    ELSE IF Len(args) = 2 THEN Unmodelled("round to a number of digits")
    ELSE ROk(IntV(RoundHalfEven(args[1].n, args[1].d)))

\* the largest r with r * r <= n
RECURSIVE ISqrtIn(_, _, _)
ISqrtIn(n, lo, hi) ==
    IF lo >= hi THEN lo
    ELSE LET mid == (lo + hi + 1) \div 2
         IN IF mid * mid <= n THEN ISqrtIn(n, mid, hi)
            ELSE ISqrtIn(n, lo, mid - 1)

ISqrt(n) == ISqrtIn(n, 0, IF n < 46340 THEN n ELSE 46340)

\* math.sqrt of n/d >= 0: exact for a square, else cut to two decimals
SqrtValue(n, d) ==
    IF ISqrt(n) * ISqrt(n) = n /\ ISqrt(d) * ISqrt(d) = d
    THEN FloatV(ISqrt(n), ISqrt(d))
    ELSE FloatV(ISqrt((n * 10000) \div d), 100)

\* the values of the transcendental functions that are rational
MathTable(name, x) ==
    IF x.n = 0 /\ name \in {"sin", "tan"} THEN ROk(FloatV(0, 1))
    ELSE IF x.n = 0 /\ name \in {"cos", "exp"} THEN ROk(FloatV(1, 1))
    ELSE IF name = "sin" /\ x.n = 11 /\ x.d = 7 THEN ROk(FloatV(1, 1))
    ELSE IF name \in {"log", "log10"} /\ x.n = x.d THEN ROk(FloatV(0, 1))
    ELSE IF name = "log10" /\ x.n = 10 /\ x.d = 1 THEN ROk(FloatV(1, 1))
    ELSE IF name = "log10" /\ x.n = 100 /\ x.d = 1 THEN ROk(FloatV(2, 1))
    ELSE Unmodelled("an irrational value of " \o name)

\* the functions of the math module that the functions table holds
FnMath(name, args) ==
    IF name = "log" /\ (args = <<>> \/ Len(args) > 2)
    THEN RErr("TypeError",
              IF args = <<>> THEN "log expected at least 1 argument, got 0"
              ELSE "log expected at most 2 arguments, got " \o ToString(Len(args)))
    ELSE IF name # "log" /\ Len(args) # 1
    THEN RErr("TypeError", "math." \o name \o "() takes exactly one argument ("
                           \o ToString(Len(args)) \o " given)")
    ELSE IF \E i \in 1..Len(args) : ~IsReal(args[i])
    THEN LET i == CHOOSE j \in 1..Len(args) :
                     ~IsReal(args[j]) /\ \A k \in 1..(j - 1) : IsReal(args[k])
         IN RErr("TypeError", "must be real number, not " \o args[i].t)
    ELSE LET x == args[1]
         IN CASE name = "sqrt" ->
                   IF x.n < 0 THEN RErr("ValueError", "math domain error")
                   ELSE ROk(SqrtValue(x.n, x.d))
              [] name = "floor" -> ROk(IntV(FloorDiv(x.n, x.d)))
              [] name = "ceil" -> ROk(IntV(-FloorDiv(-x.n, x.d)))
              [] name \in {"log", "log10"} /\ x.n <= 0 ->
                   RErr("ValueError", "math domain error")
              [] name = "log" /\ Len(args) = 2 ->
                   Unmodelled("a logarithm to a given base")
              [] OTHER -> MathTable(name, x)

\* func(*args) for a callable of the functions table
ApplyFunction(name, args) ==
    CASE name \in {"min", "max"} -> FnMinMax(name, args)
      [] name = "sum" -> FnSum(args)
      [] name = "abs" -> FnAbs(args)
      [] name = "round" -> FnRound(args)
      [] OTHER -> FnMath(name, args)

\* op(left, right) or op(operand) for a callable of the operators table
ApplyOperator(name, args) ==
    CASE name = "add" -> OpAdd(args[1], args[2])
      [] name = "sub" -> OpSub(args[1], args[2])
      [] name = "mul" -> OpMul(args[1], args[2])
      [] name = "truediv" -> OpTrueDiv(args[1], args[2])
      [] name = "pow" -> OpPow(args[1], args[2])
      [] name = "mod" -> OpMod(args[1], args[2])
      [] name = "floordiv" -> OpFloorDiv(args[1], args[2])
      [] name = "neg" -> OpNeg(args[1])
      [] name = "pos" -> OpPos(args[1])

----------------------------------------------------------------------------
(* str() and repr() of a value, and the decimal digits of a float.         *)

\* n/d > 0 brought into [1, 10): [n, d, e] with n/d * 10^e the value
RECURSIVE Scale(_, _, _)
Scale(n, d, e) ==
    IF n >= 10 * d THEN Scale(n, d * 10, e + 1)
    ELSE IF n < d THEN Scale(n * 10, d, e - 1)
    ELSE [n |-> n, d |-> d, e |-> e]

\* the first k decimal digits of r/d < 10 and the remainder left after them
RECURSIVE Digits(_, _, _)
Digits(r, d, k) ==
    IF k = 0 THEN [ds |-> <<>>, r |-> r]
    ELSE LET rest == Digits((r % d) * 10, d, k - 1)
         IN [ds |-> <<r \div d>> \o rest.ds, r |-> rest.r]

\* ds with one added to its last digit: [ds, carry]
RECURSIVE Increment(_, _)
Increment(ds, i) ==
    IF i = 0 THEN [ds |-> <<1>> \o SubSeq(ds, 1, Len(ds) - 1), carry |-> 1]
    ELSE IF ds[i] = 9 THEN Increment([ds EXCEPT ![i] = 0], i - 1)
    ELSE [ds |-> [ds EXCEPT ![i] = ds[i] + 1], carry |-> 0]

RECURSIVE StripZeros(_)
StripZeros(ds) ==
    IF Len(ds) > 1 /\ ds[Len(ds)] = 0 THEN StripZeros(SubSeq(ds, 1, Len(ds) - 1))
    ELSE ds

\* n/d > 0 rounded (ties to even) to p significant digits: the digits
\* without trailing zeros, and the decimal exponent of the first one
Significant(n, d, p) ==
    LET sc == Scale(n, d, 0)
        g == Digits(sc.n, sc.d, p)
        \* g.r is ten times the remainder left after the last digit
        up == \/ g.r > 5 * sc.d
              \/ g.r = 5 * sc.d /\ g.ds[p] % 2 = 1
        inc == IF up THEN Increment(g.ds, p) ELSE [ds |-> g.ds, carry |-> 0]
    IN [ds |-> StripZeros(inc.ds), e |-> sc.e + inc.carry]

RECURSIVE Concat(_)
Concat(strs) == IF strs = <<>> THEN "" ELSE Head(strs) \o Concat(Tail(strs))

RECURSIVE Join(_, _)
Join(strs, sep) ==
    IF strs = <<>> THEN ""
    ELSE IF Len(strs) = 1 THEN strs[1]
    ELSE strs[1] \o sep \o Join(Tail(strs), sep)

\* a formatted number is built as the sequence of its characters
DigitChars(ds) == [i \in DOMAIN ds |-> ToString(ds[i])]

ZeroChars(k) == [i \in 1..k |-> "0"]

\* the decimal digits of n >= 0
RECURSIVE IntDigits(_)
IntDigits(n) == IF n < 10 THEN <<n>> ELSE Append(IntDigits(n \div 10), n % 10)

\* str(n) of an int, in characters
IntChars(n) ==
    (IF n < 0 THEN <<"-">> ELSE <<>>) \o DigitChars(IntDigits(Abs(n)))

\* the digits ds with exponent e in positional notation; a whole number
\* ends with `whole` (".0" for repr, nothing for the g format)
Positional(ds, e, whole) ==
    IF e < 0 THEN <<"0", ".">> \o ZeroChars(-e - 1) \o DigitChars(ds)
    ELSE IF Len(ds) <= e + 1
    THEN DigitChars(ds) \o ZeroChars(e + 1 - Len(ds)) \o whole
    ELSE DigitChars(SubSeq(ds, 1, e + 1)) \o <<".">>
         \o DigitChars(SubSeq(ds, e + 2, Len(ds)))

\* the digits ds with exponent e in scientific notation
Scientific(ds, e) ==
    DigitChars(<<ds[1]>>)
    \o (IF Len(ds) > 1 THEN <<".">> \o DigitChars(Tail(ds)) ELSE <<>>)
    \o <<"e", IF e < 0 THEN "-" ELSE "+">>
    \o (IF Abs(e) < 10 THEN <<"0">> ELSE <<>>) \o DigitChars(IntDigits(Abs(e)))

\* format(x, '.3g') of the float n/d, in characters
FormatShortChars(n, d) ==
    IF n = 0 THEN <<"0">>
    ELSE (IF n < 0 THEN <<"-">> ELSE <<>>)
         \o (IF Significant(Abs(n), d, 3).e < -4
                \/ Significant(Abs(n), d, 3).e >= 3
             THEN Scientific(Significant(Abs(n), d, 3).ds,
                             Significant(Abs(n), d, 3).e)
             ELSE Positional(Significant(Abs(n), d, 3).ds,
                             Significant(Abs(n), d, 3).e, <<>>))

\* format(x, '.10g') of the float n/d, in characters
FormatGChars(n, d) ==
    IF n = 0 THEN <<"0">>
    ELSE (IF n < 0 THEN <<"-">> ELSE <<>>)
         \o (IF Significant(Abs(n), d, 10).e < -4
                \/ Significant(Abs(n), d, 10).e >= 10
             THEN Scientific(Significant(Abs(n), d, 10).ds,
                             Significant(Abs(n), d, 10).e)
             ELSE Positional(Significant(Abs(n), d, 10).ds,
                             Significant(Abs(n), d, 10).e, <<>>))

\* format(x, '.10g') of the float n/d
FormatG(n, d) == Concat(FormatGChars(n, d))

\* repr of the float n/d (sixteen significant digits of the rational)
FloatRepr(n, d) ==
    IF n = 0 THEN "0.0"
    ELSE LET sg == Significant(Abs(n), d, 16)
         IN (IF n < 0 THEN "-" ELSE "")
            \o Concat(IF sg.e < -4 \/ sg.e >= 16 THEN Scientific(sg.ds, sg.e)
                      ELSE Positional(sg.ds, sg.e, <<".", "0">>))

\* repr(v)
RECURSIVE Repr(_)
Repr(v) ==
    CASE v.t = "int" -> ToString(v.n)
      [] v.t = "bool" -> IF v.n = 1 THEN "True" ELSE "False"
      [] v.t = "float" -> FloatRepr(v.n, v.d)
      [] v.t = "str" -> "'" \o Concat(v.items) \o "'"
      [] v.t = "list" ->
           "[" \o Join([i \in 1..Len(v.items) |-> Repr(v.items[i])], ", ") \o "]"
      [] v.t = "tuple" ->
           "(" \o Join([i \in 1..Len(v.items) |-> Repr(v.items[i])], ", ")
           \o (IF Len(v.items) = 1 THEN "," ELSE "") \o ")"
      [] v.t = "builtin_function_or_method" -> "<built-in function " \o v.s \o ">"
      [] OTHER -> "None"

\* str(v)
Str(v) == IF v.t = "str" THEN Concat(v.items) ELSE Repr(v)

\* the decimal digits of an int
RECURSIVE NumDigits(_)
NumDigits(n) == IF Abs(n) < 10 THEN 1 ELSE 1 + NumDigits(Abs(n) \div 10)

\* str(v) has an int to convert that is longer than the interpreter converts
RECURSIVE TooLongForStr(_)
TooLongForStr(v) ==
    \/ v.t = "int" /\ NumDigits(v.n) > IntMaxStrDigits
    \/ v.t \in {"list", "tuple"}
         /\ \E i \in DOMAIN v.items : TooLongForStr(v.items[i])

\* str(v), f"{v}": the text, or the ValueError of the conversion
StrOf(v) ==
    IF TooLongForStr(v)
    THEN RErr("ValueError",
              "Exceeds the limit (4300 digits) for integer string conversion; "
                  \o "use sys.set_int_max_str_digits() to increase the limit")
    ELSE ROk(Str(v))

----------------------------------------------------------------------------
(* SafeMathEvaluator: the two whitelist tables and the tree walk.          *)

\* a table whose entry for ast.Div is operator.floordiv
OperatorsTableFloorDiv ==
    ("Add" :> "add") @@ ("Sub" :> "sub") @@ ("Mult" :> "mul") @@
    ("Div" :> "floordiv") @@ ("Pow" :> "pow") @@ ("Mod" :> "mod") @@
    ("FloorDiv" :> "floordiv") @@ ("USub" :> "neg") @@ ("UAdd" :> "pos")

\* SafeMathEvaluator.operators: the class of an operator -> a callable
OperatorsTable ==
    ("Add" :> "add") @@ ("Sub" :> "sub") @@ ("Mult" :> "mul") @@
    ("Div" :> "truediv") @@ ("Pow" :> "pow") @@ ("Mod" :> "mod") @@
    ("FloorDiv" :> "floordiv") @@ ("USub" :> "neg") @@ ("UAdd" :> "pos")

\* SafeMathEvaluator.functions: an identifier -> a callable or a constant
FunctionsTable ==
    [name \in WhitelistNames |->
        CASE name = "pi" -> FloatV(22, 7)
          [] name = "e" -> FloatV(19, 7)
          [] OTHER -> FuncV(name)]

\* the callables the tables hold
OperatorCallables == {OperatorsTable[tag] : tag \in DOMAIN OperatorsTable}

FunctionCallables ==
    {FunctionsTable[name].s :
        name \in {n \in DOMAIN FunctionsTable : Callable(FunctionsTable[n])}}

\* a call of the callable named name
Apply(name, args) ==
    IF name \in OperatorCallables THEN ApplyOperator(name, args)
    ELSE ApplyFunction(name, args)

(* _eval answers [ok, val, exc, msg, site, at, tr]: the value, or the      *)
(* class and text of the exception with the raise site and what it is      *)
(* about, and the trace tr of what the walk did.  An event of the trace is *)
(* the entering of a node (e = "enter", k its class, s its operator tag or *)
(* identifier) or the application of a callable (e = "apply", k and s of   *)
(* the node that applies, x the callable, callee the class of a Call's     *)
(* func node); depth is the number of nested _eval calls at the event.     *)
(* The sites are "name", "binop", "unaryop", "call" and "node" for the     *)
(* raise statements of _eval, "apply" for an exception of the callable     *)
(* applied, "recursion" for the interpreter's RecursionError and "parse"   *)
(* for an exception of ast.parse.                                          *)

Event(e, k, s, x, callee, depth) ==
    [e |-> e, k |-> k, s |-> s, x |-> x, callee |-> callee, depth |-> depth]

Enter(node, depth) == <<Event("enter", node.k, node.s, "", "", depth)>>

EOk(v, tr) ==
    [ok |-> TRUE, val |-> v, exc |-> "", msg |-> "", site |-> "", at |-> "",
     tr |-> tr]
ERaise(exc, msg, site, at, tr) ==
    [ok |-> FALSE, val |-> NoneV, exc |-> exc, msg |-> msg, site |-> site,
     at |-> at, tr |-> tr]

\* an _eval that answers None when the callable it applied raised
EAppliedOrNone(ev, tr, r) ==
    IF r.ok THEN EOk(r.val, Append(tr, ev)) ELSE EOk(NoneV, Append(tr, ev))

\* what _eval does with the answer r of the callable it applied as `ev`
EApplied(ev, tr, r) ==
    IF r.ok THEN EOk(r.val, Append(tr, ev))
    ELSE ERaise(r.exc, r.msg, "apply", ev.x, Append(tr, ev))

\* op(left, right), op(operand) or func(*args) at `node`, after the walk tr
EApply(name, args, node, callee, depth, tr) ==
    EApplied(Event("apply", node.k, node.s, name, callee, depth), tr,
             Apply(name, args))

\* a Name branch that falls back on the builtin of that name when the
\* `functions` table has none
ResolveAnyName(id, funcs, tr) ==
    IF id \in DOMAIN funcs THEN EOk(funcs[id], tr) ELSE EOk(FuncV(id), tr)

\* the Name branch: the value of the `functions` table, or the failure
ResolveName(id, funcs, tr) ==
    IF id \in DOMAIN funcs THEN EOk(funcs[id], tr)
    ELSE ERaise("ValueError", "Unknown variable: " \o id, "name", id, tr)

\* no callable: None
NoOperator == "None"

\* a lookup that answers operator.pos for a class the table does not hold
OperatorsGetOrPos(tag, ops) == IF tag \in DOMAIN ops THEN ops[tag] ELSE "pos"

\* self.operators.get(type(node.op)): the callable, or None
OperatorsGet(tag, ops) == IF tag \in DOMAIN ops THEN ops[tag] ELSE NoOperator

\* an else branch that answers None for a node of no class _eval handles
IgnoredNode(node, tr) == EOk(NoneV, tr)

\* raise ValueError(f"Not a function: {func}"), with the answer text of
\* f"{func}"
NotAFunction(text, tr) ==
    IF text.ok
    THEN ERaise("ValueError", "Not a function: " \o text.val, "call", text.val, tr)
    ELSE ERaise(text.exc, text.msg, "call", "", tr)

\* the final else branch: the node is of no class _eval handles
UnsupportedNode(node, tr) ==
    ERaise("ValueError", "Unsupported node type: " \o node.k, "node", node.k, tr)

\* an interpreter that lets the nested calls of _eval grow without limit
StackUnlimited(depth) == FALSE

\* a recursive call of _eval at `depth` nested calls finds the interpreter's
\* stack of frames used up: _eval itself counts and checks nothing
StackExhausted(depth) == depth > RecursionLimit

\* the RecursionError the interpreter raises in place of the call
RecursionError ==
    ERaise("RecursionError", "maximum recursion depth exceeded", "recursion",
           "", <<>>)

RECURSIVE Eval(_, _, _, _)
RECURSIVE EvalItems(_, _, _, _, _, _, _)
RECURSIVE EvalItemsFromTheRight(_, _, _, _, _, _, _)
RECURSIVE EvalBinOp(_, _, _, _)
RECURSIVE EvalBinOpLookupFirst(_, _, _, _)

\* a comprehension that evaluates its items from the last to the first
EvalItemsFromTheRight(items, i, acc, tr, ops, funcs, depth) ==
    IF i > Len(items) THEN EOk(ListV(acc), tr)
    ELSE LET r == Eval(items[Len(items) + 1 - i], ops, funcs, depth)
         IN IF r.ok
            THEN EvalItemsFromTheRight(items, i + 1, <<r.val>> \o acc,
                                       tr \o r.tr, ops, funcs, depth)
            ELSE ERaise(r.exc, r.msg, r.site, r.at, tr \o r.tr)

\* [self._eval(item) for item in items], from item i on, after the walk tr;
\* val is a list of the values
EvalItems(items, i, acc, tr, ops, funcs, depth) ==
    IF i > Len(items) THEN EOk(ListV(acc), tr)
    ELSE LET r == Eval(items[i], ops, funcs, depth)
         IN IF r.ok
            THEN EvalItems(items, i + 1, Append(acc, r.val), tr \o r.tr, ops,
                           funcs, depth)
            ELSE ERaise(r.exc, r.msg, r.site, r.at, tr \o r.tr)

\* a Call branch that evaluates the values of the keywords after the
\* positional arguments and passes them on
CallArgumentsAndKeywords(node) == Tail(node.c) \o node.kw

\* node.args: the arguments a Call branch evaluates and passes (node.c is
\* the callee and then the positional arguments; node.keywords is not read)
CallArguments(node) == Tail(node.c)

\* a BinOp branch that looks the operator up before it evaluates the
\* operands
EvalBinOpLookupFirst(node, ops, funcs, depth) ==
    IF OperatorsGet(node.s, ops) = NoOperator
    THEN ERaise("ValueError", "Unsupported operator: " \o node.s, "binop",
                node.s, Enter(node, depth))
    ELSE LET l == Eval(node.c[1], ops, funcs, depth + 1)
         IN IF ~l.ok
            THEN ERaise(l.exc, l.msg, l.site, l.at, Enter(node, depth) \o l.tr)
            ELSE LET r == Eval(node.c[2], ops, funcs, depth + 1)
                     tr == Enter(node, depth) \o l.tr \o r.tr
                 IN IF ~r.ok THEN ERaise(r.exc, r.msg, r.site, r.at, tr)
                    ELSE EApply(OperatorsGet(node.s, ops), <<l.val, r.val>>,
                                node, "", depth, tr)

\* the BinOp branch of _eval: the left operand, the right operand, the
\* lookup of the operator, its application
EvalBinOp(node, ops, funcs, depth) ==
    LET l == Eval(node.c[1], ops, funcs, depth + 1)
    IN IF ~l.ok
       THEN ERaise(l.exc, l.msg, l.site, l.at, Enter(node, depth) \o l.tr)
       ELSE LET r == Eval(node.c[2], ops, funcs, depth + 1)
                tr == Enter(node, depth) \o l.tr \o r.tr
            IN IF ~r.ok THEN ERaise(r.exc, r.msg, r.site, r.at, tr)
               ELSE IF OperatorsGet(node.s, ops) = NoOperator
               THEN ERaise("ValueError", "Unsupported operator: " \o node.s,
                           "binop", node.s, tr)
               ELSE EApply(OperatorsGet(node.s, ops), <<l.val, r.val>>,
                           node, "", depth, tr)

\* SafeMathEvaluator._eval, called as the depth-th nested call of itself
Eval(node, ops, funcs, depth) ==
    IF StackExhausted(depth) THEN RecursionError ELSE
    CASE node.k = "Constant" -> EOk(node.v, Enter(node, depth))
      [] node.k = "Name" -> ResolveName(node.s, funcs, Enter(node, depth))
      [] node.k = "BinOp" -> EvalBinOp(node, ops, funcs, depth)
      [] node.k = "UnaryOp" ->
           LET o == Eval(node.c[1], ops, funcs, depth + 1)
               tr == Enter(node, depth) \o o.tr
           IN IF ~o.ok THEN ERaise(o.exc, o.msg, o.site, o.at, tr)
              ELSE IF OperatorsGet(node.s, ops) = NoOperator
              THEN ERaise("ValueError",
                          "Unsupported unary operator: " \o node.s,
                          "unaryop", node.s, tr)
              ELSE EApply(OperatorsGet(node.s, ops), <<o.val>>, node, "",
                          depth, tr)
      [] node.k = "Call" ->
           LET f == Eval(node.c[1], ops, funcs, depth + 1)
           IN IF ~f.ok
              THEN ERaise(f.exc, f.msg, f.site, f.at,
                          Enter(node, depth) \o f.tr)
              ELSE IF ~Callable(f.val)
              THEN NotAFunction(StrOf(f.val), Enter(node, depth) \o f.tr)
              ELSE LET a == EvalItems(CallArguments(node), 1, <<>>,
                                      Enter(node, depth) \o f.tr, ops, funcs,
                                      depth + 1)
                   IN IF ~a.ok THEN a
                      ELSE EApply(f.val.s, a.val.items, node, node.c[1].k,
                                  depth, a.tr)
      [] node.k = "List" ->
           EvalItems(node.c, 1, <<>>, Enter(node, depth), ops, funcs, depth + 1)
      [] node.k = "Tuple" ->
           LET a == EvalItems(node.c, 1, <<>>, Enter(node, depth), ops, funcs,
                              depth + 1)
           IN IF a.ok THEN EOk(TupleV(a.val.items), a.tr) ELSE a
      [] OTHER -> UnsupportedNode(node, Enter(node, depth))

(* SafeMathEvaluator.evaluate: parse, walk, and raise every exception of   *)
(* either as ValueError("Invalid expression: ...").  The answer keeps, for *)
(* the properties, what the caller does not see: `tree`, the tree that     *)
(* ast.parse built (NoNode when it raised); `cause`, `site` and `at`, the  *)
(* class, the raise site and the subject of the exception that was caught; *)
(* and the trace of the walk.  The text of a SyntaxError is kept as        *)
(* "invalid syntax".                                                       *)

\* an except clause of evaluate that catches ValueError only
EvaluateCatchesValueError(exc) == exc = "ValueError"

\* `except Exception` in evaluate: every exception class of the model is a
\* subclass of Exception
EvaluateCatches(exc) == TRUE

\* the try block of evaluate left with the answer r of ast.parse or _eval
Evaluated(tree, r) ==
    IF r.ok
    THEN [ok |-> TRUE, val |-> r.val, exc |-> "", msg |-> "", cause |-> "",
          site |-> "", at |-> "", tr |-> r.tr, tree |-> tree]
    ELSE IF EvaluateCatches(r.exc)
    THEN [ok |-> FALSE, val |-> NoneV, exc |-> "ValueError",
          msg |-> "Invalid expression: " \o r.msg, cause |-> r.exc,
          site |-> r.site, at |-> r.at, tr |-> r.tr, tree |-> tree]
    ELSE [ok |-> FALSE, val |-> NoneV, exc |-> r.exc, msg |-> r.msg,
          cause |-> r.exc, site |-> r.site, at |-> r.at, tr |-> r.tr,
          tree |-> tree]

\* an evaluate that takes a text ast.parse rejects for the number 0
EvaluateParsedOrZero(p, ops, funcs) ==
    IF p.ok THEN Evaluated(p.node, Eval(p.node, ops, funcs, 1))
    ELSE Evaluated(NoNode, EOk(IntV(0), <<>>))

\* evaluate, with the answer p of ast.parse
EvaluateParsed(p, ops, funcs) ==
    IF p.ok THEN Evaluated(p.node, Eval(p.node, ops, funcs, 1))
    ELSE Evaluated(NoNode,
                   ERaise("SyntaxError", "invalid syntax", "parse", "", <<>>))

Evaluate(text, ops, funcs) == EvaluateParsed(AstParse(text), ops, funcs)

----------------------------------------------------------------------------
(* CalculatorTool: the two entry points.  What an entry point hands back   *)
(* is [raised, type, text]: whether it raised, the type of the value       *)
(* returned (or the class of the exception), and str() of it.              *)

\* the text of a token sequence without its surrounding blanks
StrippedTextOf(text) == Join(Strip(text), " ")

\* the concrete text of a token sequence
TextOf(text) == Join(text, " ")

\* a formatting that is str(result) for every result
FormatResultStr(result) == StrOf(result)

\* the result formatting of execute and calculate: the text, or the
\* exception of the conversion
FormatResult(result) ==
    IF result.t = "float"
    THEN IF result.d = 1 THEN ROk(Concat(IntChars(result.n)))
         ELSE ROk(FormatG(result.n, result.d))
    ELSE StrOf(result)

Returned(type, text) == [raised |-> FALSE, type |-> type, text |-> text]
Raised(exc, msg) == [raised |-> TRUE, type |-> exc, text |-> msg]

\* what a direct caller of evaluate gets from its answer r
Direct(r) ==
    IF r.ok THEN Returned(r.val.t, Str(r.val)) ELSE Raised(r.exc, r.msg)

\* an except clause of execute and calculate that catches ArithmeticError only
ExceptArithmeticError(exc) == exc \in {"ZeroDivisionError", "OverflowError"}

\* `except Exception` in execute and calculate: every exception class of
\* the model is a subclass of Exception
ExceptException(exc) == TRUE

\* the try block of execute and calculate left with the answer f of
\* evaluate and of the formatting: the response, or the except clause
Responded(text, f) ==
    IF f.ok THEN Returned("str", TextOf(text) \o " = " \o f.val)
    ELSE IF ExceptException(f.exc)
    THEN Returned("str", "Error calculating '" \o TextOf(text) \o "': " \o f.msg)
    ELSE Raised(f.exc, f.msg)

\* CalculatorTool.execute
Execute(text, r) ==
    IF r.ok THEN Responded(text, FormatResult(r.val))
    ELSE Responded(text, RErr(r.exc, r.msg))

\* a function tool that hands on str(result) as it is
CalculateUnformatted(text, r) ==
    IF r.ok THEN Responded(text, StrOf(r.val))
    ELSE Responded(text, RErr(r.exc, r.msg))

\* the function tool `calculate` of CalculatorTool.get_function_tool
Calculate(text, r) ==
    IF r.ok THEN Responded(text, FormatResult(r.val))
    ELSE Responded(text, RErr(r.exc, r.msg))

----------------------------------------------------------------------------
(* The texts the calculator is given: every text of at most MaxLen tokens  *)
(* over Alphabet, and the expressions of the repository's tests and        *)
(* documentation.                                                          *)

Samples ==
    {<<"2", "+", "3">>, <<"10", "-", "4">>, <<"6", "*", "7">>,
     <<"15", "/", "3">>, <<"2", "**", "3">>,
     <<"sqrt", "(", "16", ")">>, <<"sqrt", "(", "144", ")">>,
     <<"2", "**", "3", "+", "sqrt", "(", "16", ")", "*", "5">>,
     <<"sin", "(", "pi", "/", "2", ")">>, <<"cos", "(", "0", ")">>,
     <<"log10", "(", "100", ")">>,
     <<"max", "(", "5", ",", "10", ",", "3", ")">>,
     <<"min", "(", "5", ",", "10", ",", "3", ")">>,
     <<"abs", "(", "-", "42", ")">>,
     <<"invalid_function", "(", "5", ")">>, <<"2", "+">>, <<"/", "5">>,
     <<"unknown_var">>,
     <<"2", "+", "3", "*", "4">>, <<"10", "/", "0">>, <<"10", "%", "0">>,
     <<"os", ".", "system", "(", "'rm -rf'", ")">>,
     <<"pi">>, <<"pi", "(", ")">>, <<"e", "(", "2", ")">>,
     <<"2", "(", "x", ")">>, <<"pi", "(", "x", ")">>,
     <<"max", "(", "[", "sqrt", "]", ")", "(", "16", ")">>,
     <<"sqrt", "(", "16", ",", "x", "=", "unknown_var", ")">>,
     <<" ", "2", "+", "2", " ">>, <<"True">>, <<"7", "//", "2">>,
     <<"7", "//", "0">>, <<"2", "**", "-", "1">>, <<"0", "**", "-", "1">>,
     <<"sqrt", "(", "16", ")", "/", "0">>, <<"sqrt", "(", "16", ")", "%", "0">>,
     <<"sqrt", "(", ")">>, <<"sqrt", "(", "1", ",", "2", ")">>,
     <<"sqrt", "(", "-", "1", ")">>, <<"sqrt", "(", "'s'", ")">>,
     <<"log", "(", "0", ")">>, <<"max", "(", "5", ")">>,
     <<"2", "**", "30">>, <<"[", "2", "**", "30", "]">>,
     <<"7", "**", "-", "7">>, <<"-", "7", "**", "-", "7">>,
     <<"-", "sqrt", "(", "16", ")">>, <<"sqrt", "(", "100", ")">>,
     <<"0", "/", "2">>, <<"100", "/", "16">>,
     <<"(", "2", "**", "30", ")", "(", "2", ")">>,
     <<"2", "+", "sqrt", "(", "-", "1", ")">>,
     <<"abs", "(", "[", "sqrt", "(", "-", "1", ")", "]", ")">>,
     <<"max", "(", "1", ",", "2", "+", "x", ",", "3", ")">>,
     <<"max", "(", "x", ",", "10", "/", "0", ")">>,
     <<"max", "(", "10", "/", "0", ",", "x", ")">>,
     <<"sqrt", "(", "16", ",", "x", ")">>,
     <<"pi", "(", "10", "/", "0", ")">>,
     <<"x", "+", "10", "/", "0">>, <<"10", "/", "0", "+", "x">>,
     <<"x", "|", "2">>, <<"2", "|", "x">>, <<"2", "|", "3">>,
     <<"(", "10", "/", "0", ")", "|", "x">>,
     <<"~", "x">>, <<"~", "2">>,
     <<"round", "(", "2", ",", "x", "=", "10", "/", "0", ")">>,
     <<"round", "(", "2", ")">>,
     <<"max", "(", "x", "=", "unknown_var", ")">>, <<"max", "(", ")">>,
     <<"pi", "(", "x", "=", "unknown_var", ")">>,
     <<"sqrt", "(", "16", ",", "**", "x", ")">>,
     <<"abs", "(", "sqrt", "(", "16", ",", "x", "=", "2", ")", ")">>,
     <<"max", "(", "1", ",", "2", ",", "x", "=", "sqrt", ")">>,
     <<"max", "(", "1", ",", "2", ")">>}

\* texts nested about as deep as the interpreter lets _eval recurse: chains
\* of unary minus signs, and left-nested subtractions
RECURSIVE Chain(_, _, _)
Chain(prefix, suffix, k) ==
    IF k <= 0 THEN <<"2">> ELSE prefix \o Chain(prefix, suffix, k - 1) \o suffix

DeepTexts ==
    {Chain(<<"-">>, <<>>, k) : k \in (RecursionLimit - 1)..(RecursionLimit + 1)}
    \cup {Chain(<<>>, <<"-", "2">>, k) : k \in (RecursionLimit - 1)..RecursionLimit}

\* arithmetic on three numbers with every pair of binary operators, bare
\* and parenthesised either way, and on two numbers with a unary minus
ArithmeticOperators == {"+", "-", "*", "/", "//", "%", "**"}

ArithmeticTexts ==
    {<<"7", o1, "3", o2, "2">> : o1, o2 \in ArithmeticOperators}
    \cup {<<"(", "7", o1, "3", ")", o2, "2">> : o1, o2 \in ArithmeticOperators}
    \cup {<<"7", o1, "(", "3", o2, "2", ")">> :
              o1 \in ArithmeticOperators \ {"**"}, o2 \in ArithmeticOperators}
    \cup {<<"-", "7", o, "2">> : o \in ArithmeticOperators}
    \cup {<<"7", o, "-", "2">> : o \in ArithmeticOperators}

Texts ==
    UNION {[1..k -> Alphabet] : k \in 0..MaxLen} \cup Samples \cup DeepTexts
        \cup ArithmeticTexts

----------------------------------------------------------------------------
(* The state machine: a text is given, and the entry points are called on  *)
(* it.                                                                     *)

NoOutcome ==
    [ok |-> FALSE, val |-> NoneV, exc |-> "", msg |-> "", cause |-> "",
     site |-> "", at |-> "", tr |-> <<>>, tree |-> NoNode]

NoResponse == [raised |-> FALSE, type |-> "", text |-> ""]

\* a caller of the shared calculator_tool, with the local variables of its
\* call: where it is, the entry point, the text, the answer of ast.parse,
\* the answer of evaluate and what the entry point hands back
TaskIds == 1..NumTasks

Idle ==
    [at |-> "idle", entry |-> "", text |-> <<>>, parsed |-> PFail,
     outcome |-> NoOutcome, response |-> NoResponse]

NoTasks == [p \in TaskIds |-> Idle]

\* no walk under way
NoWalk == [tree |-> NoNode, stack |-> <<>>, visited |-> <<>>, status |-> "idle"]

\* ToolRegistry.__init__: no tools, not quiet, not initialized.  _tools is a
\* dict: the sequence of its (name, tool) entries in insertion order.
\* `defaults` counts the runs of _register_default_tools that registered.
NewRegistry ==
    [tools |-> <<>>, quiet |-> FALSE, initialized |-> FALSE, defaults |-> 0]

\* nothing answered yet
NoReply == [op |-> "", raised |-> FALSE, status |-> 0, detail |-> "", value |-> <<>>]

\* AgentService.__init__ and AgentFactory.__init__: no current agent, an
\* empty history, no agent created.  `calls` holds, for each caller, the
\* query it has waiting in `await Runner.run`; `returned` logs the queries
\* that returned to their callers since the history was last cleared, in
\* the order they returned.
NoCall == [at |-> "idle", type |-> "", query |-> "", agent |-> ""]

NewService ==
    [history |-> <<>>, current |-> "", agents |-> {},
     calls |-> [p \in TaskIds |-> NoCall], returned |-> <<>>]

Init ==
    /\ expression \in Texts
    /\ operators = OperatorsTable
    /\ functions = FunctionsTable
    /\ pc = "ready"
    /\ outcome = NoOutcome
    /\ response = NoResponse
    /\ tasks = NoTasks
    /\ walk = NoWalk
    /\ registry = NewRegistry
    /\ reply = NoReply
    /\ service = NewService

\* a direct call of SafeMathEvaluator.evaluate(expression)
CallEvaluate ==
    /\ outcome' = Evaluate(expression, operators, functions)
    /\ response' = Direct(outcome')
    /\ pc' = "evaluate"
    /\ UNCHANGED <<expression, operators, functions, tasks,
                 walk, registry, reply, service>>

\* a call of CalculatorTool.execute(expression)
CallExecute ==
    /\ outcome' = Evaluate(expression, operators, functions)
    /\ response' = Execute(expression, outcome')
    /\ pc' = "execute"
    /\ UNCHANGED <<expression, operators, functions, tasks,
                 walk, registry, reply, service>>

\* a call of the function tool calculate(expression)
CallCalculate ==
    /\ outcome' = Evaluate(expression, operators, functions)
    /\ response' = Calculate(expression, outcome')
    /\ pc' = "calculate"
    /\ UNCHANGED <<expression, operators, functions, tasks,
                 walk, registry, reply, service>>

Next == CallEvaluate \/ CallExecute \/ CallCalculate

Spec == Init /\ [][Next]_vars

\* every reachable outcome lies within what the model of Python expresses
Modelled == outcome.cause # "Unmodelled"

----------------------------------------------------------------------------
(* The shared instance: calculator_tool is one module-level object, and    *)
(* its evaluator's two tables are class attributes, so every caller works  *)
(* on the same tables.  Each caller goes through its call in steps --      *)
(* the call, ast.parse, the walk, the return -- and the steps of the       *)
(* callers interleave in every order.  Everything a call computes is held  *)
(* in its own local variables; the tables are what the callers share.      *)

\* the texts the callers give
SharedTexts ==
    {<<"2", "+", "3", "*", "4">>, <<"sqrt", "(", "16", ")">>, <<"pi">>,
     <<"x">>, <<"10", "/", "0">>, <<"2", "+">>}

EntryPoints == {"evaluate", "execute"}

\* an evaluate that keeps its answer in the table, under the name x
FunctionsKeepAnswer(funcs, r) ==
    IF r.ok THEN ("x" :> r.val) @@ funcs ELSE funcs

\* an evaluate that takes sqrt out of the table
FunctionsRemoveSqrt(funcs, r) ==
    [name \in DOMAIN funcs \ {"sqrt"} |-> funcs[name]]

\* an evaluate that rebinds pi to the int 3
FunctionsRebindPi(funcs, r) == [funcs EXCEPT !["pi"] = IntV(3)]

\* self.functions after a call of evaluate that answered r: evaluate and
\* _eval only read the table
FunctionsAfter(funcs, r) == funcs

InitShared ==
    /\ expression = <<>>
    /\ operators = OperatorsTable
    /\ functions = FunctionsTable
    /\ pc = "ready"
    /\ outcome = NoOutcome
    /\ response = NoResponse
    /\ tasks = NoTasks
    /\ walk = NoWalk
    /\ registry = NewRegistry
    /\ reply = NoReply
    /\ service = NewService

\* caller p calls evaluate(text) or execute(text)
Submit(p) ==
    /\ tasks[p].at \in {"idle", "returned"}
    /\ \E text \in SharedTexts, entry \in EntryPoints :
           tasks' = [tasks EXCEPT ![p] = [Idle EXCEPT !.at = "called",
                                                      !.entry = entry,
                                                      !.text = text]]
    /\ UNCHANGED <<expression, operators, functions, pc, outcome, response,
                 walk, registry, reply, service>>

\* node = ast.parse(expression.strip(), mode='eval')
ParseStep(p) ==
    /\ tasks[p].at = "called"
    /\ tasks' = [tasks EXCEPT ![p].at = "parsed",
                              ![p].parsed = AstParse(tasks[p].text)]
    /\ UNCHANGED <<expression, operators, functions, pc, outcome, response,
                 walk, registry, reply, service>>

\* self._eval(node.body), and the except clause of evaluate
WalkStep(p) ==
    /\ tasks[p].at = "parsed"
    /\ tasks' = [tasks EXCEPT ![p].at = "walked",
                              ![p].outcome = EvaluateParsed(tasks[p].parsed,
                                                            operators, functions)]
    /\ functions' = FunctionsAfter(functions, tasks'[p].outcome)
    /\ UNCHANGED <<expression, operators, pc, outcome, response,
                 walk, registry, reply, service>>

\* the entry point hands back its answer
ReturnStep(p) ==
    /\ tasks[p].at = "walked"
    /\ tasks' = [tasks EXCEPT ![p].at = "returned",
                              ![p].response =
                                  IF tasks[p].entry = "evaluate"
                                  THEN Direct(tasks[p].outcome)
                                  ELSE Execute(tasks[p].text, tasks[p].outcome)]
    /\ UNCHANGED <<expression, operators, functions, pc, outcome, response,
                 walk, registry, reply, service>>

NextShared ==
    \E p \in TaskIds : Submit(p) \/ ParseStep(p) \/ WalkStep(p) \/ ReturnStep(p)

SpecShared == InitShared /\ [][NextShared]_vars

----------------------------------------------------------------------------
(* The walk, call by call.  _eval is a recursive function: a call of it    *)
(* is a frame on the interpreter's stack, holding the node it is at and    *)
(* how many of the node's children it has evaluated.  A frame calls _eval  *)
(* for its next child, or returns to the frame below, or raises; nothing   *)
(* in _eval catches, so a raise ends the walk.  Whether an operator, a     *)
(* name or a callable fails is left open here: every branch that can       *)
(* raise may.  `visited` lists the calls made, in order.                   *)

\* the children of `node` that its branch of _eval calls itself on, in the
\* order of the calls: the operands, the callee and then the arguments, the
\* items; a node of any other class has no branch that descends
Descends(node) ==
    IF node.k \in {"BinOp", "UnaryOp", "Call", "List", "Tuple"} THEN node.c
    ELSE <<>>

\* the frame on top of the stack
Top == walk.stack[Len(walk.stack)]

\* the texts walked: the parsed ones of the samples and the deep chains
InitWalk ==
    /\ expression \in {t \in Samples \cup DeepTexts : AstParse(t).ok}
    /\ operators = OperatorsTable
    /\ functions = FunctionsTable
    /\ pc = "ready"
    /\ outcome = NoOutcome
    /\ response = NoResponse
    /\ tasks = NoTasks
    /\ walk = [tree |-> AstParse(expression).node,
               stack |-> <<[node |-> AstParse(expression).node, next |-> 1]>>,
               visited |-> Enter(AstParse(expression).node, 1),
               status |-> "walking"]
    /\ registry = NewRegistry
    /\ reply = NoReply
    /\ service = NewService

\* self._eval(child) for the next child of the node on top: a new frame, or
\* the interpreter's RecursionError when the stack has no room for it
WalkCall ==
    /\ walk.status = "walking"
    /\ Top.next <= Len(Descends(Top.node))
    /\ walk' =
           IF StackExhausted(Len(walk.stack) + 1)
           THEN [walk EXCEPT !.status = "raised", !.stack = <<>>]
           ELSE [walk EXCEPT
                    !.stack = Append(@, [node |-> Descends(Top.node)[Top.next],
                                         next |-> 1]),
                    !.visited = @ \o Enter(Descends(Top.node)[Top.next],
                                           Len(walk.stack) + 1)]
    /\ UNCHANGED <<expression, operators, functions, pc, outcome, response,
                   tasks, registry, reply, service>>

\* a return that leaves the caller at the child it has just evaluated
WalkReturnInPlace ==
    /\ walk.status = "walking"
    /\ Top.next > Len(Descends(Top.node))
    /\ Top.node.k \in {"Constant", "Name", "BinOp", "UnaryOp", "Call", "List",
                        "Tuple"}
    /\ walk' =
           IF Len(walk.stack) = 1
           THEN [walk EXCEPT !.status = "returned", !.stack = <<>>]
           ELSE [walk EXCEPT
                    !.stack = SubSeq(walk.stack, 1, Len(walk.stack) - 1)]
    /\ UNCHANGED <<expression, operators, functions, pc, outcome, response,
                   tasks, registry, reply, service>>

\* the return statement of a branch whose children are all evaluated: the
\* frame is popped and the caller goes on to its next child
WalkReturn ==
    /\ walk.status = "walking"
    /\ Top.next > Len(Descends(Top.node))
    /\ Top.node.k \in {"Constant", "Name", "BinOp", "UnaryOp", "Call", "List",
                        "Tuple"}
    /\ walk' =
           IF Len(walk.stack) = 1
           THEN [walk EXCEPT !.status = "returned", !.stack = <<>>]
           ELSE [walk EXCEPT
                    !.stack = [SubSeq(walk.stack, 1, Len(walk.stack) - 1)
                                  EXCEPT ![Len(walk.stack) - 1].next = @ + 1]]
    /\ UNCHANGED <<expression, operators, functions, pc, outcome, response,
                   tasks, registry, reply, service>>

\* a raise statement of _eval, or an exception of the callable applied: an
\* unknown Name; a BinOp or UnaryOp with its operands evaluated (no
\* operator, or the operator raises); a Call with its callee evaluated (not
\* callable) or with everything evaluated (the function raises); a node of
\* no class _eval handles
WalkRaise ==
    /\ walk.status = "walking"
    /\ \/ Top.node.k = "Name"
       \/ Top.node.k \in {"BinOp", "UnaryOp"}
              /\ Top.next > Len(Descends(Top.node))
       \/ Top.node.k = "Call" /\ Top.next = 2
       \/ Top.node.k = "Call" /\ Top.next > Len(Descends(Top.node))
       \/ Top.node.k \notin {"Constant", "Name", "BinOp", "UnaryOp", "Call",
                              "List", "Tuple"}
    /\ walk' = [walk EXCEPT !.status = "raised", !.stack = <<>>]
    /\ UNCHANGED <<expression, operators, functions, pc, outcome, response,
                   tasks, registry, reply, service>>

NextWalk == WalkCall \/ WalkReturn \/ WalkRaise

\* _eval is plain synchronous code: a frame that can take a step takes one
SpecWalk == InitWalk /\ [][NextWalk]_vars /\ WF_vars(NextWalk)

----------------------------------------------------------------------------
(* The tool registry and the tools API.  tool_registry is one module-level *)
(* ToolRegistry; the routes of api/routes/tools.py look their tool up in   *)
(* it.  A tool is [name, impl]: its name and which object it is.  The      *)
(* methods of the registry and the route handlers up to their `await` are  *)
(* plain synchronous code, so each runs as one step.  What get_weather and *)
(* search_web answer depends on remote services: their execute returns     *)
(* some text or raises.  A reply is what the caller of a method or the     *)
(* client of a route gets: `raised` with the exception class in `detail`   *)
(* (for a route: an HTTPException, with its status and detail, and the tool  *)
(* name of the request as `value`), else the value returned (for a route:  *)
(* HTTP 200 and the response model).                                       *)

\* weather_tool, calculator_tool, search_tool, in the order registered
DefaultTools ==
    <<[name |-> "get_weather", impl |-> "weather_tool"],
      [name |-> "calculate", impl |-> "calculator_tool"],
      [name |-> "search_web", impl |-> "search_tool"]>>

\* tools a caller of register_tool brings: one under a default tool's name,
\* one under a name of its own
OtherTools ==
    {[name |-> "calculate", impl |-> "other_tool"],
     [name |-> "echo", impl |-> "other_tool"]}

\* the names asked for
ToolNames == {"get_weather", "calculate", "search_web", "echo", "nope"}

\* the parameters sent to POST /tools/execute
Parameters ==
    {[key |-> "expression", value |-> t] : t \in SharedTexts}
        \cup {[key |-> "city", value |-> <<"London">>],
              [key |-> "query", value |-> <<"tla">>],
              [key |-> "", value |-> <<>>]}

\* list(self._tools.keys())
Keys(reg) == [i \in DOMAIN reg.tools |-> reg.tools[i].name]

\* a register_tool that adds the tool only when its name is free
RegisterToolIfAbsent(reg, tool) ==
    IF \E i \in DOMAIN reg.tools : reg.tools[i].name = tool.name THEN reg
    ELSE [reg EXCEPT !.tools = Append(@, tool)]

\* ToolRegistry.register_tool: self._tools[tool.name] = tool (a new key goes
\* last, an old key keeps its place and takes the new value)
RegisterTool(reg, tool) ==
    IF \E i \in DOMAIN reg.tools : reg.tools[i].name = tool.name
    THEN [reg EXCEPT !.tools = [i \in DOMAIN @ |->
                                   IF @[i].name = tool.name THEN tool ELSE @[i]]]
    ELSE [reg EXCEPT !.tools = Append(@, tool)]

\* a _register_default_tools without its guard
RegisterDefaultToolsAgain(reg) ==
    [RegisterTool(RegisterTool(RegisterTool(reg, DefaultTools[1]),
                               DefaultTools[2]), DefaultTools[3])
        EXCEPT !.initialized = TRUE, !.defaults = @ + 1]

\* ToolRegistry._register_default_tools, as every method but register_tool
\* calls it (`if not self._initialized`)
RegisterDefaultTools(reg) ==
    IF reg.initialized THEN reg
    ELSE [RegisterTool(RegisterTool(RegisterTool(reg, DefaultTools[1]),
                                    DefaultTools[2]), DefaultTools[3])
             EXCEPT !.initialized = TRUE, !.defaults = @ + 1]

\* ToolRegistry.get_tool on the initialized registry: the tool, or ValueError
GetTool(reg, name) ==
    IF \E i \in DOMAIN reg.tools : reg.tools[i].name = name
    THEN ROk(reg.tools[CHOOSE i \in DOMAIN reg.tools : reg.tools[i].name = name])
    ELSE RErr("ValueError",
              "Tool '" \o name \o "' not found. Available tools: ["
                  \o Join([i \in DOMAIN reg.tools |->
                              "'" \o reg.tools[i].name \o "'"], ", ") \o "]")

\* the parameter names the execute of a tool takes (required, all)
Signature(tool) ==
    CASE tool.impl = "calculator_tool" -> <<{"expression"}, {"expression"}>>
      [] tool.impl = "weather_tool" -> <<{"city"}, {"city", "weather_type"}>>
      [] tool.impl = "search_tool" -> <<{"query"}, {"query", "max_results"}>>
      [] OTHER -> <<{}, {}>>

\* what `await tool.execute(**parameters)` can give: the string returned,
\* or the exception raised
ToolExecute(tool, param) ==
    IF ~(Signature(tool)[1] \subseteq ({param.key} \ {""})
         /\ ({param.key} \ {""}) \subseteq Signature(tool)[2])
    THEN {[ok |-> FALSE, val |-> "", exc |-> "TypeError",
           msg |-> "execute() got an unexpected keyword argument"
                       \o " or is missing a required one"]}
    ELSE IF tool.impl = "calculator_tool"
    THEN {[ok |-> TRUE, exc |-> "", msg |-> "",
           val |-> Execute(param.value,
                           Evaluate(param.value, operators, functions)).text]}
    ELSE {[ok |-> TRUE, val |-> "some text", exc |-> "", msg |-> ""],
          [ok |-> FALSE, val |-> "", exc |-> "RuntimeError",
           msg |-> "service unavailable"]}

\* a value returned / an exception raised / an HTTPException raised
Reply(op, value) ==
    [op |-> op, raised |-> FALSE, status |-> 200, detail |-> "", value |-> value]
ReplyRaise(op, exc, msg) ==
    [op |-> op, raised |-> TRUE, status |-> 0, detail |-> exc,
     value |-> <<msg>>]
HTTPException(op, name, status, detail) ==
    [op |-> op, raised |-> TRUE, status |-> status, detail |-> detail,
     value |-> <<name>>]

\* an execute_tool that keeps the text of the tool to itself when the text
\* reports an error
ToolExecutionResponseHidingErrors(name, param, r) ==
    IF r.ok /\ r.val \in {Execute(t, Evaluate(t, OperatorsTable,
                                               FunctionsTable)).text :
                              t \in {u \in SharedTexts :
                                         Evaluate(u, OperatorsTable,
                                                  FunctionsTable).ok}}
    THEN [tool_name |-> name, parameters |-> param, result |-> r.val,
          status |-> "success", error_message |-> "None"]
    ELSE [tool_name |-> name, parameters |-> param, result |-> "",
          status |-> "error", error_message |-> r.msg]

\* the ToolExecutionResponse of execute_tool for the answer r of the tool
\* (or of the lookup): the success response, or the one of `except Exception`
ToolExecutionResponse(name, param, r) ==
    IF r.ok
    THEN [tool_name |-> name, parameters |-> param, result |-> r.val,
          status |-> "success", error_message |-> "None"]
    ELSE [tool_name |-> name, parameters |-> param, result |-> "",
          status |-> "error", error_message |-> r.msg]

\* bool(tool): BaseTool defines neither __bool__ nor __len__, so every tool
\* is true
Truthy(tool) == TRUE

InitRegistry ==
    /\ expression = <<>>
    /\ operators = OperatorsTable
    /\ functions = FunctionsTable
    /\ pc = "ready"
    /\ outcome = NoOutcome
    /\ response = NoResponse
    /\ tasks = NoTasks
    /\ walk = NoWalk
    /\ registry = NewRegistry
    /\ reply = NoReply
    /\ service = NewService

\* ToolRegistry.set_quiet_mode(quiet)
SetQuietMode ==
    /\ \E quiet \in BOOLEAN :
           registry' = RegisterDefaultTools([registry EXCEPT !.quiet = quiet])
    /\ reply' = Reply("set_quiet_mode", <<>>)
    /\ UNCHANGED <<expression, operators, functions, pc, outcome, response,
                   tasks, walk, service>>

\* ToolRegistry.register_tool(tool), called from outside the registry
CallRegisterTool ==
    /\ \E tool \in OtherTools :
           /\ registry' = RegisterTool(registry, tool)
           /\ reply' = Reply("register_tool", <<tool>>)
    /\ UNCHANGED <<expression, operators, functions, pc, outcome, response,
                   tasks, walk, service>>

\* ToolRegistry.get_tool(name)
CallGetTool ==
    /\ registry' = RegisterDefaultTools(registry)
    /\ \E name \in ToolNames :
           reply' = IF GetTool(registry', name).ok
                    THEN Reply("get_tool", <<name, GetTool(registry', name).val>>)
                    ELSE ReplyRaise("get_tool", "ValueError",
                                    GetTool(registry', name).msg)
    /\ UNCHANGED <<expression, operators, functions, pc, outcome, response,
                   tasks, walk, service>>

\* ToolRegistry.get_all_tools()
GetAllTools ==
    /\ registry' = RegisterDefaultTools(registry)
    /\ reply' = Reply("get_all_tools", registry'.tools)
    /\ UNCHANGED <<expression, operators, functions, pc, outcome, response,
                   tasks, walk, service>>

\* ToolRegistry.get_function_tools(): the function tool of every tool
GetFunctionTools ==
    /\ registry' = RegisterDefaultTools(registry)
    /\ reply' = Reply("get_function_tools", registry'.tools)
    /\ UNCHANGED <<expression, operators, functions, pc, outcome, response,
                   tasks, walk, service>>

\* ToolRegistry.list_tools()
ListTools ==
    /\ registry' = RegisterDefaultTools(registry)
    /\ reply' = Reply("list_tools", Keys(registry'))
    /\ UNCHANGED <<expression, operators, functions, pc, outcome, response,
                   tasks, walk, service>>

\* POST /tools/execute: execute_tool(request)
ExecuteTool ==
    /\ registry' = RegisterDefaultTools(registry)
    /\ \E name \in ToolNames, param \in Parameters :
           IF ~GetTool(registry', name).ok
           THEN reply' = Reply("execute_tool",
                               ToolExecutionResponse(
                                   name, param,
                                   [ok |-> FALSE, val |-> "",
                                    exc |-> GetTool(registry', name).exc,
                                    msg |-> GetTool(registry', name).msg]))
           ELSE IF ~Truthy(GetTool(registry', name).val)
           THEN reply' = HTTPException("execute_tool", name, 404,
                                       "Tool '" \o name \o "' not found")
           ELSE \E r \in ToolExecute(GetTool(registry', name).val, param) :
                    reply' = Reply("execute_tool",
                                   ToolExecutionResponse(name, param, r))
    /\ UNCHANGED <<expression, operators, functions, pc, outcome, response,
                   tasks, walk, service>>

\* GET /tools/{tool_name}: get_tool_info(tool_name)
GetToolInfo ==
    /\ registry' = RegisterDefaultTools(registry)
    /\ \E name \in ToolNames :
           reply' =
               IF ~GetTool(registry', name).ok
               THEN HTTPException("get_tool_info", name, 500,
                                  "Failed to retrieve tool information")
               ELSE IF ~Truthy(GetTool(registry', name).val)
               THEN HTTPException("get_tool_info", name, 404,
                                  "Tool '" \o name \o "' not found")
               ELSE Reply("get_tool_info",
                          <<name, GetTool(registry', name).val>>)
    /\ UNCHANGED <<expression, operators, functions, pc, outcome, response,
                   tasks, walk, service>>

NextRegistry ==
    \/ SetQuietMode \/ CallRegisterTool \/ CallGetTool \/ GetAllTools
    \/ GetFunctionTools \/ ListTools \/ ExecuteTool \/ GetToolInfo

SpecRegistry == InitRegistry /\ [][NextRegistry]_vars

----------------------------------------------------------------------------
(* The agent service.  agent_service is one AgentService shared by every   *)
(* caller; its four query methods are coroutines that give up control at   *)
(* `await Runner.run(agent, query)`, so the queries of several callers are *)
(* under way at once and return in any order.  What the agent answers      *)
(* depends on a remote model: Runner.run returns a result whose            *)
(* final_output is a text, or raises.                                      *)

\* the four query methods, by the "type" they write into the history
QueryTypes == {"weather", "general", "custom", "api"}

\* the method of each type
MethodOf(type) ==
    CASE type = "weather" -> "run_weather_query"
      [] type = "general" -> "run_general_query"
      [] type = "custom"  -> "run_custom_query"
      [] type = "api"     -> "process_message"

\* the agent names the callers pass: the defaults, and one for the custom agent
AgentNames(type) ==
    CASE type = "weather" -> {"Weather Assistant"}
      [] type = "general" -> {"General Assistant"}
      [] type = "custom"  -> {"Custom"}
      [] type = "api"     -> {"AI Assistant"}

\* the queries asked and the texts the agent answers
Queries == {"2 + 2"}
FinalOutputs == {"4"}

\* what a failing model or network raises
RunnerErrors == {"Connection error."}

\* the text of the AgentError of each method
FailedTo(type) ==
    CASE type = "weather" -> "Failed to run weather query: "
      [] type = "general" -> "Failed to run general query: "
      [] type = "custom"  -> "Failed to run custom query: "
      [] type = "api"     -> "Failed to process message: "

\* raise AgentError(f"Failed to ...: {str(e)}")
AgentError(type, e) ==
    [op |-> MethodOf(type), raised |-> TRUE, status |-> 0,
     detail |-> "AgentError", value |-> <<FailedTo(type), e>>]

\* the dict a query method appends to the history
ConversationEntry(call, output) ==
    [query |-> call.query, response |-> output, agent |-> call.agent,
     type |-> call.type]

\* a history that takes the newest entry in front
AppendEntryInFront(history, entry) == <<entry>> \o history

\* self._conversation_history.append({...})
AppendEntry(history, entry) == Append(history, entry)

\* run_custom_query creates its agent anew at every call; the other methods
\* create it when agent_factory has none of that name
CreatesAgent(type, agent) == type = "custom" \/ agent \notin service.agents

InitAgent ==
    /\ expression \in {<<>>}
    /\ operators = OperatorsTable
    /\ functions = FunctionsTable
    /\ pc = "ready"
    /\ outcome = NoOutcome
    /\ response = NoResponse
    /\ tasks = NoTasks
    /\ walk = NoWalk
    /\ registry = NewRegistry
    /\ reply = NoReply
    /\ service = NewService

\* a query method up to its await: the agent is looked up or created, made
\* the current agent, and Runner.run is awaited
StartQuery ==
    \E p \in TaskIds, type \in QueryTypes, query \in Queries :
      \E agent \in AgentNames(type) :
        /\ service.calls[p].at = "idle"
        /\ service' =
               [service EXCEPT
                   !.agents = @ \cup {agent},
                   !.current = agent,
                   !.calls[p] = [at |-> "awaiting", type |-> type,
                                 query |-> query, agent |-> agent]]
        /\ UNCHANGED <<expression, operators, functions, pc, outcome, response,
                       tasks, walk, registry, reply>>

\* a query method whose agent cannot be created (no model, no key): the
\* exception of agent_factory is caught and AgentError raised
CreateAgentFails ==
    \E p \in TaskIds, type \in QueryTypes, e \in RunnerErrors :
      \E agent \in AgentNames(type) :
        /\ service.calls[p].at = "idle"
        /\ CreatesAgent(type, agent)
        /\ reply' = AgentError(type, e)
        /\ UNCHANGED <<expression, operators, functions, pc, outcome, response,
                       tasks, walk, registry, service>>

\* Runner.run returns: the entry is appended and the answer returned
QueryReturns ==
    \E p \in TaskIds, output \in FinalOutputs :
        /\ service.calls[p].at = "awaiting"
        /\ Len(service.history) < MaxHistory
        /\ service' =
               [service EXCEPT
                   !.history = AppendEntry(@, ConversationEntry(service.calls[p], output)),
                   !.returned = Append(@, ConversationEntry(service.calls[p], output)),
                   !.calls[p] = NoCall]
        /\ reply' = Reply(MethodOf(service.calls[p].type),
                          <<ConversationEntry(service.calls[p], output)>>)
        /\ UNCHANGED <<expression, operators, functions, pc, outcome, response,
                       tasks, walk, registry>>

\* Runner.run raises: the exception is caught and AgentError raised
QueryRaises ==
    \E p \in TaskIds, e \in RunnerErrors :
        /\ service.calls[p].at = "awaiting"
        /\ service' = [service EXCEPT !.calls[p] = NoCall]
        /\ reply' = AgentError(service.calls[p].type, e)
        /\ UNCHANGED <<expression, operators, functions, pc, outcome, response,
                       tasks, walk, registry>>

\* get_conversation_history: a copy of the list
GetConversationHistory ==
    /\ reply' = Reply("get_conversation_history", service.history)
    /\ UNCHANGED <<expression, operators, functions, pc, outcome, response,
                   tasks, walk, registry, service>>

\* clear_conversation_history
ClearConversationHistory ==
    /\ service' = [service EXCEPT !.history = <<>>, !.returned = <<>>]
    /\ reply' = Reply("clear_conversation_history", <<>>)
    /\ UNCHANGED <<expression, operators, functions, pc, outcome, response,
                   tasks, walk, registry>>

\* the entries of one type
CountOf(type) ==
    Cardinality({i \in DOMAIN service.history : service.history[i].type = type})

\* get_agent_stats: the size of the history, and of each type in it
GetAgentStats ==
    /\ reply' = Reply("get_agent_stats",
                      <<Len(service.history), CountOf("weather"),
                        CountOf("general"), CountOf("custom"), CountOf("api")>>)
    /\ UNCHANGED <<expression, operators, functions, pc, outcome, response,
                   tasks, walk, registry, service>>

NextAgent ==
    \/ StartQuery \/ CreateAgentFails \/ QueryReturns \/ QueryRaises
    \/ GetConversationHistory \/ ClearConversationHistory \/ GetAgentStats

SpecAgent == InitAgent /\ [][NextAgent]_vars

----------------------------------------------------------------------------
(* Properties.  What they share.                                           *)

\* an entry point has been called on `expression`
Called == pc # "ready"

\* the events of the walk that apply a callable
Applications == {i \in 1..Len(outcome.tr) : outcome.tr[i].e = "apply"}

\* the events of the walk that enter a node
Entries == {i \in 1..Len(outcome.tr) : outcome.tr[i].e = "enter"}

\* the callables that the table funcs holds
CallablesOf(funcs) ==
    {funcs[n].s :
        n \in {m \in DOMAIN funcs : funcs[m].t = "builtin_function_or_method"}}

\* the identifiers that the Name nodes of a tree refer to
RECURSIVE NamesIn(_)
NamesIn(node) ==
    IF node.k = "Name" THEN {node.s}
    ELSE UNION ({NamesIn(node.c[i]) : i \in 1..Len(node.c)}
                \cup {NamesIn(node.kw[i]) : i \in 1..Len(node.kw)})

\* an int or a float (a bool is neither)
IsNumber(v) == v.t \in {"int", "float"}

----------------------------------------------------------------------------
(* C1.  Whitelist safety: whatever the text, every callable that a Call    *)
(* node applies is a callable of the `functions` table, and every operator *)
(* that a BinOp or UnaryOp node applies is the entry of the `operators`    *)
(* table for the node's operator class; the walk applies nothing else.     *)
WhitelistSafety ==
    Called =>
        \A i \in Applications :
            LET ev == outcome.tr[i]
            IN \/ ev.k = "Call" /\ ev.x \in CallablesOf(functions)
               \/ /\ ev.k \in {"BinOp", "UnaryOp"}
                  /\ ev.s \in DOMAIN operators
                  /\ ev.x = operators[ev.s]

\* C1's case: a walk that applied both a function and an operator
WhitelistSafetyWitness ==
    /\ Called
    /\ outcome.ok
    /\ \E i \in Applications : outcome.tr[i].k = "Call"
    /\ \E i \in Applications : outcome.tr[i].k = "BinOp"

(* C2.  A text that refers to an identifier outside the `functions` table  *)
(* (as a bare name, an operand, a call target or the base of an attribute  *)
(* access) fails with the unknown-identifier error, 'Unknown variable:     *)
(* <name>', or with a syntax error, and the name is never applied.         *)
UnknownNames ==
    IF outcome.tree = NoNode
    THEN {expression[i] : i \in 1..Len(expression)}
             \cap (NameTokens \ DOMAIN functions)
    ELSE NamesIn(outcome.tree) \ DOMAIN functions

UnknownIdentifierFails ==
    (Called /\ UnknownNames # {}) =>
        /\ ~outcome.ok
        /\ \/ outcome.cause = "SyntaxError"
           \/ outcome.site = "name" /\ outcome.at \in UnknownNames
        /\ \A i \in Applications : outcome.tr[i].x \notin UnknownNames

(* C3.  Nothing raises past the entry points: execute and calculate hand   *)
(* back a str for every text, and when parsing or the walk failed it is    *)
(* the message "Error calculating '<text>': <text of the exception>".      *)
NothingRaisesPastEntryPoint ==
    pc \in {"execute", "calculate"} =>
        /\ ~response.raised
        /\ response.type = "str"
        /\ ~outcome.ok =>
               response.text = "Error calculating '" \o TextOf(expression)
                                   \o "': " \o outcome.msg

\* C3's case: execute called on a text whose walk raised inside a callable
NothingRaisesPastEntryPointWitness ==
    /\ pc = "execute"
    /\ ~outcome.ok
    /\ outcome.site = "apply"
    /\ outcome.cause = "TypeError"
    /\ ~response.raised

(* C4.  A text of the form `a / 0` or `a % 0`, where a evaluates to a      *)
(* number (an int or a float) and the divisor is the literal 0, always     *)
(* fails with the division-by-zero error; no value (inf, nan or other) is  *)
(* the result.                                                             *)
DividesByLiteralZero ==
    /\ outcome.tree.k = "BinOp"
    /\ outcome.tree.s \in {"Div", "Mod"}
    /\ outcome.tree.c[2].k = "Constant"
    /\ outcome.tree.c[2].v = IntV(0)

DividendIsNumber ==
    LET a == Eval(outcome.tree.c[1], operators, functions, 2)
    IN a.ok /\ IsNumber(a.val)

DivisionByZeroFails ==
    (Called /\ DividesByLiteralZero /\ DividendIsNumber) =>
        /\ ~outcome.ok
        /\ outcome.cause = "ZeroDivisionError"
        /\ outcome.site = "apply"
        /\ outcome.at = operators[outcome.tree.s]

\* C4's case: a modulo by the literal 0 of a dividend that is a float
DivisionByZeroFailsWitness ==
    /\ Called
    /\ DividesByLiteralZero
    /\ DividendIsNumber
    /\ outcome.tree.s = "Mod"
    /\ outcome.tree.c[1].k = "Call"
    /\ ~outcome.ok

(* C5.  As claimed: the final else branch of _eval is never reached for a  *)
(* tree that the parser builds from a text, since every node the parser    *)
(* emits is a Constant, Name, BinOp, UnaryOp, Call, List or Tuple.         *)
HandledKinds == {"Constant", "Name", "BinOp", "UnaryOp", "Call", "List", "Tuple"}

RECURSIVE KindsIn(_)
KindsIn(node) ==
    {node.k} \cup UNION ({KindsIn(node.c[i]) : i \in 1..Len(node.c)}
                         \cup {KindsIn(node.kw[i]) : i \in 1..Len(node.kw)})

DefaultDenyNeverReached ==
    (Called /\ outcome.tree # NoNode) =>
        /\ KindsIn(outcome.tree) \subseteq HandledKinds
        /\ outcome.site # "node"

(* C5, amended.  The parser emits nodes of other classes too (Attribute,   *)
(* Subscript, Compare, Starred); the final else branch is reached exactly  *)
(* when the walk enters such a node, and the evaluation then fails at once *)
(* with 'Unsupported node type: <class>'.                                  *)
DefaultDenyRejects ==
    Called =>
        /\ \A i \in Entries :
               outcome.tr[i].k \notin HandledKinds =>
                   /\ i = Len(outcome.tr)
                   /\ ~outcome.ok
                   /\ outcome.site = "node"
                   /\ outcome.at = outcome.tr[i].k
                   /\ outcome.exc = "ValueError"
                   /\ outcome.msg = "Invalid expression: Unsupported node type: "
                                        \o outcome.tr[i].k
        /\ outcome.site = "node" =>
               /\ outcome.tr # <<>>
               /\ Len(outcome.tr) \in Entries
               /\ outcome.tr[Len(outcome.tr)].k \notin HandledKinds

\* C5's case: the walk of an attribute access that is the target of a call
DefaultDenyRejectsWitness ==
    /\ Called
    /\ outcome.tree.k = "Call"
    /\ outcome.site = "node"
    /\ outcome.at = "Attribute"
    /\ Len(outcome.tr) = 2

CalleeIsWhitelistedName ==
    /\ outcome.tree.c[1].k = "Name"
    /\ outcome.tree.c[1].s \in DOMAIN functions
    /\ functions[outcome.tree.c[1].s].t = "builtin_function_or_method"

CallOnlyThroughIdentifier ==
    Called =>
        /\ \A i \in Applications :
               outcome.tr[i].k = "Call" => outcome.tr[i].callee = "Name"
        /\ (/\ outcome.tree.k = "Call"
            /\ ~CalleeIsWhitelistedName
            /\ ~(outcome.tree.c[1].k = "Name"
                 /\ outcome.tree.c[1].s \notin DOMAIN functions)) =>
               /\ ~outcome.ok
               /\ outcome.site = "call"
               /\ Applications = {}

(* C7, amended.  A Call node applies only callables of `functions`, but    *)
(* the callee may be any expression that evaluates to one, as in           *)
(* max([sqrt])(16).  When the callee evaluates to a value that is not      *)
(* callable, the Call fails with 'Not a function: <value>' before any      *)
(* argument is evaluated and applies nothing; when the callee does not     *)
(* evaluate, the Call fails with the callee's failure.                     *)
CalleeOutcome == Eval(outcome.tree.c[1], operators, functions, 2)

CallAppliesWhitelistedCallable ==
    Called =>
        /\ \A i \in Applications :
               outcome.tr[i].k = "Call" =>
                   outcome.tr[i].x \in CallablesOf(functions)
        /\ (outcome.tree.k = "Call" /\ CalleeOutcome.ok
            /\ CalleeOutcome.val.t # "builtin_function_or_method") =>
               /\ ~outcome.ok
               /\ outcome.site = "call"
               /\ outcome.exc = "ValueError"
               /\ outcome.msg =
                      "Invalid expression: "
                          \o (IF StrOf(CalleeOutcome.val).ok
                              THEN "Not a function: " \o Str(CalleeOutcome.val)
                              ELSE StrOf(CalleeOutcome.val).msg)
               /\ outcome.tr = Enter(outcome.tree, 1) \o CalleeOutcome.tr
        /\ (outcome.tree.k = "Call" /\ ~CalleeOutcome.ok) =>
               /\ ~outcome.ok
               /\ outcome.site = CalleeOutcome.site
               /\ outcome.msg = "Invalid expression: " \o CalleeOutcome.msg
               /\ outcome.tr = Enter(outcome.tree, 1) \o CalleeOutcome.tr
        /\ outcome.site = "call" => ~outcome.ok

\* C7's case: a call of the constant pi, with an argument that would fail
CallAppliesWhitelistedCallableWitness ==
    /\ Called
    /\ outcome.tree.k = "Call"
    /\ outcome.tree.c[1].k = "Name"
    /\ outcome.tree.c[1].s = "pi"
    /\ Len(outcome.tree.c) = 2
    /\ outcome.site = "call"
    /\ Len(outcome.tr) = 2

(* C8.  Every successful evaluation returns a number: when evaluate does   *)
(* not fail, the value is an int or a float, never a str, bool, None,      *)
(* list, tuple or function.                                                *)
SuccessIsNumber == (Called /\ outcome.ok) => IsNumber(outcome.val)

(* C9.  A text that is the bare name of a function of the table never      *)
(* yields the function value as the final output of evaluate or execute.   *)
BareFunctionName ==
    /\ outcome.tree.k = "Name"
    /\ outcome.tree.s \in DOMAIN functions
    /\ functions[outcome.tree.s].t = "builtin_function_or_method"

BareFunctionIsNoOutput ==
    (Called /\ BareFunctionName) =>
        /\ ~(outcome.ok /\ outcome.val = functions[outcome.tree.s])
        /\ pc = "execute" =>
               response.text # TextOf(expression) \o " = "
                                   \o Repr(functions[outcome.tree.s])

(* C10.  As claimed: every failed evaluation is turned into a result that  *)
(* carries its error kind, one of SyntaxError, UnknownIdentifierError,     *)
(* NotCallableError, ArityOrDomainError, DivisionByZeroError,              *)
(* UnsupportedConstructError and TooComplexError, so that the caller can   *)
(* tell from the result which kind occurred.                               *)
ErrorKind(site, cause) ==
    CASE site = "parse" -> "SyntaxError"
      [] site = "name" -> "UnknownIdentifierError"
      [] site = "call" -> "NotCallableError"
      [] site \in {"node", "binop", "unaryop"} -> "UnsupportedConstructError"
      [] site = "apply" /\ cause = "ZeroDivisionError" -> "DivisionByZeroError"
      [] OTHER -> "ArityOrDomainError"

FailureCarriesErrorKind ==
    (Called /\ ~outcome.ok) =>
        outcome.exc = ErrorKind(outcome.site, outcome.cause)

(* C10, amended.  Every failed evaluation leaves evaluate as a ValueError  *)
(* whose message is 'Invalid expression: ' and the text of the exception   *)
(* caught; the class of that exception (SyntaxError, ValueError,           *)
(* TypeError, ZeroDivisionError) is not carried, so the kinds differ in    *)
(* the message text only, which execute hands on in its error message.     *)
FailureIsValueErrorWithMessage ==
    (Called /\ ~outcome.ok) =>
        /\ outcome.exc = "ValueError"
        /\ outcome.site \in {"parse", "name", "binop", "unaryop", "call",
                             "node", "apply", "recursion"}
        /\ outcome.site = "parse" <=> outcome.cause = "SyntaxError"
        /\ outcome.site = "recursion" <=> outcome.cause = "RecursionError"
        /\ outcome.site = "apply" =>
               outcome.cause \in {"ValueError", "TypeError", "ZeroDivisionError"}
        /\ outcome.site \in {"name", "binop", "unaryop", "call", "node"} =>
               outcome.cause = "ValueError"
        /\ outcome.site \in {"name", "binop", "unaryop", "call", "node"}
             /\ outcome.at # "" =>
               /\ outcome.msg =
                      "Invalid expression: "
                          \o (CASE outcome.site = "name" -> "Unknown variable: "
                                [] outcome.site = "binop" -> "Unsupported operator: "
                                [] outcome.site = "unaryop" ->
                                     "Unsupported unary operator: "
                                [] outcome.site = "call" -> "Not a function: "
                                [] outcome.site = "node" ->
                                     "Unsupported node type: ")
                          \o outcome.at
        /\ pc = "evaluate" => response = Raised("ValueError", outcome.msg)
        /\ pc \in {"execute", "calculate"} =>
               response = Returned("str", "Error calculating '"
                                              \o TextOf(expression) \o "': "
                                              \o outcome.msg)

\* C10's case: a division by zero that leaves evaluate as a ValueError
FailureIsValueErrorWithMessageWitness ==
    /\ pc = "evaluate"
    /\ ~outcome.ok
    /\ outcome.cause = "ZeroDivisionError"
    /\ response.raised
    /\ response.type = "ValueError"
    /\ response.text = "Invalid expression: division by zero"

----------------------------------------------------------------------------
(* C11: recursion depth of the walk. *)

\* the nodes on the longest path of the tree through the children _eval
\* walks
RECURSIVE Height(_)
Height(node) ==
    IF node.c = <<>> THEN 1
    ELSE 1 + CHOOSE h \in {Height(node.c[i]) : i \in DOMAIN node.c} :
                 \A i \in DOMAIN node.c : Height(node.c[i]) <= h

\* the trees of the deep texts: a chain of unary minus signs on a literal
RECURSIVE IsMinusChain(_)
IsMinusChain(node) ==
    \/ node.k = "Constant" /\ IsIntegral(node.v)
    \/ node.k = "UnaryOp" /\ node.s = "USub" /\ IsMinusChain(node.c[1])

\* C11 as stated: the walk bounds its own recursion, so that input nested
\* beyond its guard fails with the walk's TooComplexError and the call
\* stack of the interpreter is never exhausted.
WalkGuardsItsRecursion ==
    Called => outcome.cause # "RecursionError"

\* C11 as amended: _eval has no guard of its own.  The depth of its nested
\* calls is bounded by the interpreter's recursion limit alone; a tree
\* nested deeper fails, a chain of unary minus signs nested deeper fails
\* with the interpreter's RecursionError, raised in place of the recursive
\* call, which evaluate catches and raises again as ValueError("Invalid
\* expression: maximum recursion depth exceeded") and execute and calculate
\* return as their error text.
RecursionBoundedByInterpreter ==
    Called =>
        /\ \A i \in DOMAIN outcome.tr : outcome.tr[i].depth <= RecursionLimit
        /\ outcome.tree # NoNode /\ Height(outcome.tree) > RecursionLimit
               => ~outcome.ok
        /\ outcome.tree # NoNode /\ Height(outcome.tree) > RecursionLimit
             /\ IsMinusChain(outcome.tree)
               => outcome.cause = "RecursionError"
        /\ outcome.tree # NoNode /\ Height(outcome.tree) <= RecursionLimit
               => outcome.cause # "RecursionError"
        /\ outcome.cause = "RecursionError"
               => /\ ~outcome.ok
                  /\ outcome.site = "recursion"
                  /\ outcome.exc = "ValueError"
                  /\ outcome.msg =
                         "Invalid expression: maximum recursion depth exceeded"
                  /\ \E i \in DOMAIN outcome.tr :
                         outcome.tr[i].depth = RecursionLimit
                  /\ pc = "evaluate"
                         => response = Raised("ValueError", outcome.msg)
                  /\ pc \in {"execute", "calculate"}
                         => response =
                                Returned("str",
                                         "Error calculating '"
                                             \o Join(expression, " ") \o "': "
                                             \o outcome.msg)

\* execute was given a chain of minus signs nested deeper than the
\* interpreter lets _eval recurse, and returned the error text
RecursionBoundedByInterpreterWitness ==
    /\ pc = "execute"
    /\ outcome.tree # NoNode
    /\ IsMinusChain(outcome.tree)
    /\ Height(outcome.tree) = RecursionLimit + 1
    /\ outcome.cause = "RecursionError"
    /\ Len(outcome.tr) = RecursionLimit
    /\ ~response.raised

----------------------------------------------------------------------------
(* C12: determinism. *)

\* the calls that have their answer from evaluate
Answered == {p \in TaskIds : tasks[p].at \in {"walked", "returned"}}

----------------------------------------------------------------------------
(* C13: a function that rejects its arguments. *)

\* the values of the arguments of the Call `node`, itself at `depth`
ArgumentValues(node, depth) ==
    EvalItems(Tail(node.c), 1, <<>>, <<>>, operators, functions, depth + 1)

\* what the function named by the Call `node` answers to its arguments
FunctionAnswer(node, depth) ==
    ApplyFunction(node.c[1].s, ArgumentValues(node, depth).val.items)

\* `node` is a Call of a whitelisted function whose arguments all have a
\* value and which rejects them: wrong count, wrong type, out of domain
Rejects(node, depth) ==
    /\ node.k = "Call"
    /\ node.c[1].k = "Name"
    /\ node.c[1].s \in DOMAIN functions
    /\ Callable(functions[node.c[1].s])
    /\ depth + 1 <= RecursionLimit
    /\ ArgumentValues(node, depth).ok
    /\ ~FunctionAnswer(node, depth).ok
    /\ FunctionAnswer(node, depth).exc \in {"TypeError", "ValueError"}

\* such a Call somewhere among the nodes the walk goes through
RECURSIVE SomeCallRejects(_, _)
SomeCallRejects(node, depth) ==
    \/ Rejects(node, depth)
    \/ \E i \in DOMAIN node.c : SomeCallRejects(node.c[i], depth + 1)

\* C13: when a whitelisted function rejects its evaluated arguments, the
\* Call fails with the function's exception (of arity, type or domain), the
\* whole evaluation fails and no value is returned: evaluate raises, and
\* execute and calculate return the error text.
RejectedArgumentsFail ==
    Called /\ outcome.tree # NoNode =>
        /\ SomeCallRejects(outcome.tree, 1) =>
               /\ ~outcome.ok
               /\ outcome.val = NoneV
               /\ pc = "evaluate" => response = Raised("ValueError", outcome.msg)
               /\ pc \in {"execute", "calculate"} =>
                      response =
                          Returned("str",
                                   "Error calculating '"
                                       \o Join(expression, " ") \o "': "
                                       \o outcome.msg)
        /\ Rejects(outcome.tree, 1) =>
               /\ outcome.site = "apply"
               /\ outcome.at = outcome.tree.c[1].s
               /\ outcome.cause = FunctionAnswer(outcome.tree, 1).exc
               /\ outcome.msg = "Invalid expression: "
                                    \o FunctionAnswer(outcome.tree, 1).msg
               /\ outcome.tr[Len(outcome.tr)].e = "apply"
               /\ outcome.tr[Len(outcome.tr)].k = "Call"

\* sqrt was applied to -1 inside a sum, raised its domain error, and
\* execute returned the error text
RejectedArgumentsFailWitness ==
    /\ pc = "execute"
    /\ expression = <<"2", "+", "sqrt", "(", "-", "1", ")">>
    /\ ~Rejects(outcome.tree, 1)
    /\ SomeCallRejects(outcome.tree, 1)
    /\ outcome.site = "apply" /\ outcome.at = "sqrt"
    /\ outcome.cause = "ValueError"
    /\ response.text = "Error calculating '2 + sqrt ( - 1 )': "
                           \o "Invalid expression: math domain error"

----------------------------------------------------------------------------
(* C14: texts outside the grammar. *)

\* the tokens of `expression` that ast.parse is given
Stripped == Tokenize(Strip(expression))

\* the binary operators of the numeric-expression grammar
BinaryOperatorTokens == ArithmeticOperators

\* the tokens of the numeric-expression grammar: literals, operators,
\* parentheses, brackets, commas and identifiers
ArithmeticTokens ==
    DOMAIN IntLiteral \cup BinaryOperatorTokens \cup NameTokens
        \cup {"(", ")", "[", "]", ","}

Count(toks, t) == Cardinality({i \in DOMAIN toks : toks[i] = t})

EmptyText == Stripped = <<>>

UnbalancedParentheses == Count(Stripped, "(") # Count(Stripped, ")")

TrailingBinaryOperator ==
    Stripped # <<>> /\ Stripped[Len(Stripped)] \in BinaryOperatorTokens

\* + and - in front are the unary operators
LeadingBinaryOperator ==
    Stripped # <<>> /\ Stripped[1] \in BinaryOperatorTokens \ {"+", "-"}

NonArithmeticToken ==
    \E i \in DOMAIN Stripped : Stripped[i] \notin ArithmeticTokens

\* evaluate failed in ast.parse and no node was evaluated
SyntaxErrorAndNothingEvaluated ==
    /\ ~outcome.ok
    /\ outcome.cause = "SyntaxError"
    /\ outcome.site = "parse"
    /\ outcome.tree = NoNode
    /\ outcome.tr = <<>>

\* C14 as stated: parsing fails with a syntax error, and no node is
\* evaluated, for every text outside the numeric-expression grammar: empty
\* or blank, with unbalanced parentheses, with a trailing or a leading
\* binary operator, or with a non-arithmetic token.
NonConformingTextIsSyntaxError ==
    Called /\ (EmptyText \/ UnbalancedParentheses \/ TrailingBinaryOperator
                   \/ LeadingBinaryOperator \/ NonArithmeticToken)
        => SyntaxErrorAndNothingEvaluated

\* C14 as amended: parsing fails with a syntax error, and no node is
\* evaluated, for every text that is empty or blank, has unbalanced
\* parentheses, or has a trailing or a leading binary operator; whenever
\* parsing fails no node is evaluated.  A text with a non-arithmetic token
\* that is a Python expression all the same (a string, a comparison, an
\* attribute, a bitwise operator) is parsed, and the walk is entered.
MalformedTextIsSyntaxError ==
    Called =>
        /\ EmptyText \/ UnbalancedParentheses \/ TrailingBinaryOperator
               \/ LeadingBinaryOperator
             => SyntaxErrorAndNothingEvaluated
        /\ ~AstParse(expression).ok \/ outcome.cause = "SyntaxError" =>
               /\ ~outcome.ok
               /\ outcome.site = "parse"
               /\ outcome.tree = NoNode
               /\ outcome.tr = <<>>
        /\ AstParse(expression).ok =>
               /\ outcome.tree = AstParse(expression).node
               /\ outcome.tr # <<>>
               /\ outcome.tr[1].e = "enter" /\ outcome.tr[1].depth = 1
        /\ pc \in {"execute", "calculate"} /\ outcome.tree = NoNode =>
               response =
                   Returned("str",
                            "Error calculating '" \o Join(expression, " ")
                                \o "': Invalid expression: invalid syntax")

\* execute was given '2 +', ast.parse raised, nothing was evaluated
MalformedTextIsSyntaxErrorWitness ==
    /\ pc = "execute"
    /\ expression = <<"2", "+">>
    /\ TrailingBinaryOperator
    /\ SyntaxErrorAndNothingEvaluated
    /\ response.text = "Error calculating '2 +': Invalid expression: invalid syntax"

----------------------------------------------------------------------------
(* C15: precedence and associativity.  The conventional value of an        *)
(* arithmetic text is computed from its tokens, without a tree: split at   *)
(* the last + or - outside parentheses, else at the last * / // or %,      *)
(* else take a sign in front, else split at the first **, else open the    *)
(* parentheses, else read the literal.                                     *)

\* the function each operator token stands for
TokenOperator ==
    ("+" :> "add") @@ ("-" :> "sub") @@ ("*" :> "mul") @@ ("/" :> "truediv") @@
    ("//" :> "floordiv") @@ ("%" :> "mod") @@ ("**" :> "pow")

TokenSign == ("+" :> "pos") @@ ("-" :> "neg")

Malformed ==
    [wf |-> FALSE, ok |-> FALSE, val |-> NoneV, exc |-> "", msg |-> ""]

WellFormed(r) ==
    [wf |-> TRUE, ok |-> r.ok, val |-> r.val, exc |-> r.exc, msg |-> r.msg]

\* the positions outside parentheses where one of `ops` stands between two
\* operands
Splits(toks, ops) ==
    {i \in 2..(Len(toks) - 1) :
        /\ toks[i] \in ops
        /\ toks[i - 1] \in DOMAIN IntLiteral \cup {")"}
        /\ Count(SubSeq(toks, 1, i - 1), "(") = Count(SubSeq(toks, 1, i - 1), ")")}

Last(positions) == CHOOSE i \in positions : \A j \in positions : j <= i
First(positions) == CHOOSE i \in positions : \A j \in positions : i <= j

ConventionalBinary(tok, l, r) ==
    IF ~l.wf \/ ~r.wf THEN Malformed
    ELSE IF ~l.ok THEN l
    ELSE IF ~r.ok THEN r
    ELSE WellFormed(ApplyOperator(TokenOperator[tok], <<l.val, r.val>>))

ConventionalSign(tok, o) ==
    IF ~o.wf THEN Malformed
    ELSE IF ~o.ok THEN o
    ELSE WellFormed(ApplyOperator(TokenSign[tok], <<o.val>>))

RECURSIVE Conventional(_)

ConventionalSplit(toks, i) ==
    ConventionalBinary(toks[i], Conventional(SubSeq(toks, 1, i - 1)),
                       Conventional(SubSeq(toks, i + 1, Len(toks))))

Conventional(toks) ==
    IF toks = <<>> THEN Malformed
    ELSE IF Splits(toks, {"+", "-"}) # {}
    THEN ConventionalSplit(toks, Last(Splits(toks, {"+", "-"})))
    ELSE IF Splits(toks, {"*", "/", "//", "%"}) # {}
    THEN ConventionalSplit(toks, Last(Splits(toks, {"*", "/", "//", "%"})))
    ELSE IF toks[1] \in DOMAIN TokenSign
    THEN ConventionalSign(toks[1], Conventional(Tail(toks)))
    ELSE IF Splits(toks, {"**"}) # {}
    THEN ConventionalSplit(toks, First(Splits(toks, {"**"})))
    ELSE IF toks[1] = "(" /\ toks[Len(toks)] = ")"
    THEN Conventional(SubSeq(toks, 2, Len(toks) - 1))
    ELSE IF Len(toks) = 1 /\ toks[1] \in DOMAIN IntLiteral
    THEN WellFormed(ROk(IntV(IntLiteral[toks[1]])))
    ELSE Malformed

\* the conventional value of `expression`
ConventionalValue == Conventional(Stripped)

\* evaluate answered what conventional precedence and associativity give --
\* the value, or the failure of the operator that fails -- and every
\* operator node applied the function the operators table holds for its tag
AnsweredConventionally ==
    /\ outcome.tree # NoNode
    /\ outcome.ok = ConventionalValue.ok
    /\ outcome.ok => outcome.val = ConventionalValue.val
    /\ ~outcome.ok =>
           /\ outcome.site = "apply"
           /\ outcome.cause = ConventionalValue.exc
           /\ outcome.msg = "Invalid expression: " \o ConventionalValue.msg
    /\ \A i \in DOMAIN outcome.tr :
           outcome.tr[i].e = "apply" =>
               /\ outcome.tr[i].k \in {"BinOp", "UnaryOp"}
               /\ outcome.tr[i].x = OperatorsTable[outcome.tr[i].s]

----------------------------------------------------------------------------
(* C16: what execute returns. *)

\* the caller's text as it was given
Original == Join(expression, " ")

\* C16 as stated: execute returns exactly '<expression> = <formatted
\* result>' when evaluation succeeds and exactly "Error calculating
\* '<expression>': <message>" when it fails, with the caller's text
\* unchanged.
ExecuteReportsEvaluation ==
    pc = "execute" =>
        /\ outcome.ok =>
               /\ FormatResult(outcome.val).ok
               /\ response =
                      Returned("str",
                               Original \o " = " \o FormatResult(outcome.val).val)
        /\ ~outcome.ok =>
               response =
                   Returned("str",
                            "Error calculating '" \o Original \o "': "
                                \o outcome.msg)

\* C16 as amended: the same, except that when evaluation succeeds and the
\* formatting of the result raises (the str() of an int longer than the
\* interpreter converts), execute returns "Error calculating
\* '<expression>': <message of that exception>".
ExecuteReportsEvaluationOrFormatting ==
    pc = "execute" =>
        /\ outcome.ok /\ FormatResult(outcome.val).ok =>
               response =
                   Returned("str",
                            Original \o " = " \o FormatResult(outcome.val).val)
        /\ outcome.ok /\ ~FormatResult(outcome.val).ok =>
               /\ TooLongForStr(outcome.val)
               /\ response =
                      Returned("str",
                               "Error calculating '" \o Original \o "': "
                                   \o FormatResult(outcome.val).msg)
        /\ ~outcome.ok =>
               response =
                   Returned("str",
                            "Error calculating '" \o Original \o "': "
                                \o outcome.msg)

\* execute was given ' 2 + 2 ' with blanks around it, evaluated the
\* stripped copy and returned the text with the blanks in front
ExecuteReportsEvaluationOrFormattingWitness ==
    /\ pc = "execute"
    /\ expression = <<" ", "2", "+", "2", " ">>
    /\ Strip(expression) # expression
    /\ outcome.ok /\ outcome.val = IntV(4)
    /\ response.text = Original \o " = 4"
    /\ response.text # Join(Strip(expression), " ") \o " = 4"

----------------------------------------------------------------------------
(* C17: whole-valued results. *)

WholeFloat(v) == v.t = "float" /\ v.d = 1

\* execute or calculate returned the result as the decimal digits of the
\* integer n
RenderedAsInteger(n) ==
    response = Returned("str", Original \o " = " \o ToString(n))

\* C17 as stated: a whole-valued float result is formatted as its integer
\* rendering, with no '.0' and no exponent, and an integer result as that
\* integer.
WholeResultIsInteger ==
    pc \in {"execute", "calculate"} /\ outcome.ok
      /\ (WholeFloat(outcome.val) \/ outcome.val.t = "int")
        => RenderedAsInteger(outcome.val.n)

\* C17 as amended: a whole-valued float result is formatted as its integer
\* rendering; an integer result as that integer unless it is longer than
\* the interpreter's str() converts, in which case the entry point returns
\* the error text of the conversion.
WholeFloatIsInteger ==
    pc \in {"execute", "calculate"} /\ outcome.ok =>
        /\ WholeFloat(outcome.val) => RenderedAsInteger(outcome.val.n)
        /\ outcome.val.t = "int" /\ NumDigits(outcome.val.n) <= IntMaxStrDigits
               => RenderedAsInteger(outcome.val.n)
        /\ outcome.val.t = "int" /\ NumDigits(outcome.val.n) > IntMaxStrDigits
               => response =
                      Returned("str",
                               "Error calculating '" \o Original \o "': "
                                   \o StrOf(outcome.val).msg)

\* sqrt(16) is the float 4.0, and execute returned it as 4
WholeFloatIsIntegerWitness ==
    /\ pc = "execute"
    /\ expression = <<"sqrt", "(", "16", ")">>
    /\ outcome.ok
    /\ outcome.val = FloatV(4, 1)
    /\ Str(outcome.val) = "4.0"
    /\ response.text = "sqrt ( 16 ) = 4"

----------------------------------------------------------------------------
(* C18: formatting round-trips.  The numeric parser reads the characters   *)
(* of a decimal numeral -- sign, digits, point, digits, exponent -- and    *)
(* answers the sign, the significant digits ds and the decimal exponent e  *)
(* of the first of them: the number is d1.d2d3... x 10^e.                  *)

DigitOf ==
    ("0" :> 0) @@ ("1" :> 1) @@ ("2" :> 2) @@ ("3" :> 3) @@ ("4" :> 4) @@
    ("5" :> 5) @@ ("6" :> 6) @@ ("7" :> 7) @@ ("8" :> 8) @@ ("9" :> 9)

AllDigits(chars) == \A i \in DOMAIN chars : chars[i] \in DOMAIN DigitOf

\* the position of the first c in chars, or 0
Find(chars, c) ==
    IF \E i \in DOMAIN chars : chars[i] = c
    THEN CHOOSE i \in DOMAIN chars :
             chars[i] = c /\ \A j \in 1..(i - 1) : chars[j] # c
    ELSE 0

RECURSIVE NumberOf(_)
NumberOf(chars) ==
    IF chars = <<>> THEN 0
    ELSE 10 * NumberOf(SubSeq(chars, 1, Len(chars) - 1))
             + DigitOf[chars[Len(chars)]]

RECURSIVE LeadingZeros(_)
LeadingZeros(chars) ==
    IF chars # <<>> /\ Head(chars) = "0" THEN 1 + LeadingZeros(Tail(chars))
    ELSE 0

NotANumber == [ok |-> FALSE, neg |-> FALSE, ds |-> <<>>, e |-> 0]

\* the exponent part: nothing, or e, a sign and digits
ParseExponent(chars) ==
    IF chars = <<>> THEN [ok |-> TRUE, x |-> 0]
    ELSE IF Len(chars) >= 3 /\ chars[1] = "e" /\ chars[2] \in {"+", "-"}
            /\ AllDigits(SubSeq(chars, 3, Len(chars)))
    THEN [ok |-> TRUE,
          x |-> (IF chars[2] = "-" THEN -1 ELSE 1)
                    * NumberOf(SubSeq(chars, 3, Len(chars)))]
    ELSE [ok |-> FALSE, x |-> 0]

\* the digits before and after the point, with the exponent x
ParseDigits(neg, whole, frac, x) ==
    IF whole = <<>> \/ ~AllDigits(whole) \/ ~AllDigits(frac) \/ ~x.ok
    THEN NotANumber
    ELSE [ok |-> TRUE, neg |-> neg,
          ds |-> StripZeros([i \in 1..(Len(whole \o frac)
                                         - LeadingZeros(whole \o frac)) |->
                                DigitOf[(whole \o frac)[i + LeadingZeros(whole \o frac)]]]),
          e |-> Len(whole) - 1 - LeadingZeros(whole \o frac) + x.x]

\* the mantissa: digits, and digits after a point if there is one
ParseMantissa(neg, chars, x) ==
    IF Find(chars, ".") = 0 THEN ParseDigits(neg, chars, <<>>, x)
    ELSE IF Find(chars, ".") = Len(chars) THEN NotANumber
    ELSE ParseDigits(neg, SubSeq(chars, 1, Find(chars, ".") - 1),
                     SubSeq(chars, Find(chars, ".") + 1, Len(chars)), x)

ParseUnsigned(neg, chars) ==
    IF Find(chars, "e") = 0 THEN ParseMantissa(neg, chars, ParseExponent(<<>>))
    ELSE ParseMantissa(neg, SubSeq(chars, 1, Find(chars, "e") - 1),
                       ParseExponent(SubSeq(chars, Find(chars, "e"), Len(chars))))

\* the numeric parser
ParseNumber(chars) ==
    IF chars # <<>> /\ Head(chars) = "-" THEN ParseUnsigned(TRUE, Tail(chars))
    ELSE ParseUnsigned(FALSE, chars)

\* the characters of the formatted result of execute, for a number
FormattedChars(v) ==
    IF v.t = "float" /\ v.d # 1 THEN FormatGChars(v.n, v.d) ELSE IntChars(v.n)

\* the first ten digits of |n/d| # 0, cut off, with the exponent of the
\* first digit and the remainder
FirstTen(n, d) ==
    [e |-> Scale(Abs(n), d, 0).e,
     ds |-> Digits(Scale(Abs(n), d, 0).n, Scale(Abs(n), d, 0).d, 10).ds,
     r |-> Digits(Scale(Abs(n), d, 0).n, Scale(Abs(n), d, 0).d, 10).r]

Padded(ds) == ds \o [i \in 1..(10 - Len(ds)) |-> 0]

\* p is n/d # 0 exactly
RecoversExactly(p, n, d) ==
    /\ p.ok
    /\ p.neg = (n < 0)
    /\ Len(p.ds) <= 10
    /\ p.e = FirstTen(n, d).e
    /\ Padded(p.ds) = FirstTen(n, d).ds
    /\ FirstTen(n, d).r = 0

\* p is within one unit of the tenth significant digit of n/d # 0
RecoversWithinTolerance(p, n, d) ==
    /\ p.ok
    /\ p.neg = (n < 0)
    /\ Len(p.ds) <= 10
    /\ \/ p.e = FirstTen(n, d).e /\ Padded(p.ds) = FirstTen(n, d).ds
       \/ /\ p.e = FirstTen(n, d).e + Increment(FirstTen(n, d).ds, 10).carry
          /\ Padded(p.ds) = Increment(FirstTen(n, d).ds, 10).ds

\* the numeral has a point only with digits after it, the last of them not 0
NoTrailingZeros(chars) ==
    Find(chars, ".") # 0 =>
        LET m == IF Find(chars, "e") = 0 THEN chars
                 ELSE SubSeq(chars, 1, Find(chars, "e") - 1)
        IN m[Len(m)] \in DOMAIN DigitOf \ {"0"}

\* the formatted result of execute reads back as the value v
RoundTrips(v) ==
    /\ response = Returned("str",
                           Original \o " = " \o Concat(FormattedChars(v)))
    /\ IF v.n = 0 THEN ParseNumber(FormattedChars(v)).ok
                       /\ ParseNumber(FormattedChars(v)).ds = <<>>
       ELSE IF v.t = "float" /\ v.d # 1
       THEN /\ RecoversWithinTolerance(ParseNumber(FormattedChars(v)), v.n, v.d)
            /\ NoTrailingZeros(FormattedChars(v))
       ELSE RecoversExactly(ParseNumber(FormattedChars(v)), v.n, v.d)

\* C18 as stated: for every numeric result value, the formatted result
\* parsed back through a numeric parser recovers the value to within
\* floating-point tolerance; a non-whole float has at most 10 significant
\* digits and no trailing zeros.
FormattingRoundTrips ==
    pc = "execute" /\ outcome.ok /\ outcome.val.t \in {"int", "float"}
        => RoundTrips(outcome.val)

\* C18 as amended: the same for every float and for every int that str()
\* converts; an int longer than the interpreter converts has no formatted
\* result to parse back.
FormattingRoundTripsWhenFormatted ==
    pc = "execute" /\ outcome.ok /\ outcome.val.t \in {"int", "float"} =>
        /\ ~TooLongForStr(outcome.val) => RoundTrips(outcome.val)
        /\ TooLongForStr(outcome.val) => ~FormatResult(outcome.val).ok

\* 7 ** -7 is 1.2142656...e-06: execute returned ten significant digits in
\* scientific notation, which read back as the value rounded up in the
\* tenth digit
FormattingRoundTripsWhenFormattedWitness ==
    /\ pc = "execute"
    /\ expression = <<"7", "**", "-", "7">>
    /\ outcome.ok
    /\ outcome.val = FloatV(1, 823543)
    /\ response.text = "7 ** - 7 = 1.214265679e-06"
    /\ ParseNumber(FormattedChars(outcome.val)) =
           [ok |-> TRUE, neg |-> FALSE, ds |-> <<1, 2, 1, 4, 2, 6, 5, 6, 7, 9>>,
            e |-> -6]
    /\ FirstTen(1, 823543).ds = <<1, 2, 1, 4, 2, 6, 5, 6, 7, 8>>

----------------------------------------------------------------------------
(* C19: the tables are not written. *)

\* C19: after any sequence of evaluate and execute calls, successful or
\* failing, the operators and functions tables hold exactly the entries
\* they were constructed with.
TablesAreNeverWritten ==
    /\ operators = OperatorsTable
    /\ functions = FunctionsTable
    /\ DOMAIN functions = WhitelistNames

\* one call has returned a value and another has failed on an unknown
\* name, and the tables are as constructed
TablesAreNeverWrittenWitness ==
    /\ \E p \in TaskIds : tasks[p].at = "returned" /\ tasks[p].outcome.ok
    /\ \E p \in TaskIds :
           /\ tasks[p].at = "returned"
           /\ tasks[p].text = <<"x">>
           /\ tasks[p].outcome.site = "name"
    /\ functions = FunctionsTable /\ operators = OperatorsTable

----------------------------------------------------------------------------
(* C20: concurrent evaluations. *)

\* what a call with `text` answers when it is the only one
Alone(text) == Evaluate(text, OperatorsTable, FunctionsTable)

\* every call that has its answer has the answer it has when run alone,
\* and hands back what it hands back when run alone
AnswersAsAlone ==
    \A p \in Answered :
        /\ tasks[p].outcome = Alone(tasks[p].text)
        /\ tasks[p].at = "returned" =>
               tasks[p].response =
                   IF tasks[p].entry = "evaluate"
                   THEN Direct(Alone(tasks[p].text))
                   ELSE Execute(tasks[p].text, Alone(tasks[p].text))

\* a step writes the local variables of one call and nothing else
WritesOwnStateOnly ==
    /\ \E p \in TaskIds : \A q \in TaskIds \ {p} : tasks'[q] = tasks[q]
    /\ operators' = operators
    /\ functions' = functions

\* C20: when evaluations run concurrently on the shared calculator_tool,
\* in every interleaving each one returns the outcome it returns when run
\* alone, and none writes state that another reads.
NoCoordinationNeeded == []AnswersAsAlone /\ [][WritesOwnStateOnly]_vars

\* two calls are in progress at once, on different texts: one has walked
\* its tree to a value while the other, parsed, has still to walk its own
NoCoordinationNeededWitness ==
    \E p, q \in TaskIds :
        /\ p # q
        /\ tasks[p].at = "walked" /\ tasks[q].at = "parsed"
        /\ tasks[p].text = <<"sqrt", "(", "16", ")">>
        /\ tasks[q].text = <<"x">>
        /\ tasks[p].outcome.ok
        /\ tasks[p].outcome = Alone(tasks[p].text)

----------------------------------------------------------------------------
(* C21: the walk terminates. *)

RECURSIVE Preorder(_, _)
RECURSIVE PreorderItems(_, _, _)

\* the nodes of the tree under `node`, parent first and children left to
\* right, each as the call of _eval on it at its depth would be recorded
Preorder(node, depth) == Enter(node, depth) \o PreorderItems(node.c, 1, depth + 1)

PreorderItems(items, i, depth) ==
    IF i > Len(items) THEN <<>>
    ELSE Preorder(items[i], depth) \o PreorderItems(items, i + 1, depth)

\* every frame is at a child of the node of the frame below it
CallsOnlyOnChildren ==
    \A i \in 1..(Len(walk.stack) - 1) :
        /\ walk.stack[i].next \in 1..Len(Descends(walk.stack[i].node))
        /\ walk.stack[i + 1].node =
               Descends(walk.stack[i].node)[walk.stack[i].next]

\* the calls made are the first nodes of the tree in preorder: no node is
\* walked twice and there are no more calls than nodes; a walk that
\* returned has walked them all
WalksEachNodeAtMostOnce ==
    /\ Len(walk.visited) <= Len(Preorder(walk.tree, 1))
    /\ walk.visited = SubSeq(Preorder(walk.tree, 1), 1, Len(walk.visited))
    /\ walk.status = "returned" => walk.visited = Preorder(walk.tree, 1)

\* C21: evaluation terminates: every walk returns a value or fails, _eval
\* calls itself only on strict sub-nodes of its node and evaluates each node
\* at most once, so it is invoked at most as often as the tree has nodes.
EvaluationTerminates ==
    /\ [](CallsOnlyOnChildren /\ WalksEachNodeAtMostOnce)
    /\ (walk.status = "walking") ~> (walk.status \in {"returned", "raised"})

\* a walk three frames deep in a tree of seven nodes, five of them walked
EvaluationTerminatesWitness ==
    /\ expression = <<"max", "(", "1", ",", "2", "+", "x", ",", "3", ")">>
    /\ walk.status = "walking"
    /\ Len(walk.stack) = 3
    /\ Top.node.k = "Constant"
    /\ Len(walk.visited) = 5
    /\ Len(Preorder(walk.tree, 1)) = 7

----------------------------------------------------------------------------
(* C22: the tools API hands on what the calculator answered. *)

\* the registry holds calculator_tool under the name calculate
CalculateIsCalculatorTool ==
    /\ GetTool(registry, "calculate").ok
    /\ GetTool(registry, "calculate").val.impl = "calculator_tool"

\* the last request was POST /tools/execute for calculate with an expression
CalculateRequested ==
    /\ reply.op = "execute_tool"
    /\ ~reply.raised
    /\ reply.value.tool_name = "calculate"
    /\ reply.value.parameters.key = "expression"

\* what CalculatorTool.execute returns for the expression of that request
CalculatorAnswer ==
    Execute(reply.value.parameters.value,
            Evaluate(reply.value.parameters.value, OperatorsTable,
                     FunctionsTable))

\* C22: POST /tools/execute for 'calculate' never raises an HTTP error and,
\* with calculator_tool registered under that name, answers a
\* ToolExecutionResponse whose result is exactly the string that
\* CalculatorTool.execute returned, its error message included.
CalculatorAnswerSurfacedVerbatim ==
    /\ reply.op = "execute_tool" => ~reply.raised /\ reply.status = 200
    /\ (CalculateRequested /\ CalculateIsCalculatorTool) =>
           /\ ~CalculatorAnswer.raised
           /\ reply.value.result = CalculatorAnswer.text
           /\ reply.value.status = "success"

\* a division by zero sent through the API: the response carries the
\* calculator's error text as its result
CalculatorAnswerSurfacedVerbatimWitness ==
    /\ CalculateRequested
    /\ CalculateIsCalculatorTool
    /\ reply.value.parameters.value = <<"10", "/", "0">>
    /\ ~Evaluate(<<"10", "/", "0">>, OperatorsTable, FunctionsTable).ok
    /\ reply.value.result =
           "Error calculating '10 / 0': Invalid expression: division by zero"

----------------------------------------------------------------------------
(* C23: the order of the steps of a Call. *)

\* the expression is a call
IsCall == Called /\ outcome.tree.k = "Call"

\* what the i-th argument of the call evaluates to, on its own
ArgumentOutcome(i) == Eval(outcome.tree.c[i + 1], operators, functions, 2)

\* the arguments that fail
FailingArguments ==
    {i \in 1..(Len(outcome.tree.c) - 1) : ~ArgumentOutcome(i).ok}

\* the first argument that fails, or the last argument when none does
LastEvaluated ==
    IF FailingArguments = {} THEN Len(outcome.tree.c) - 1
    ELSE CHOOSE i \in FailingArguments : \A j \in FailingArguments : i <= j

\* the walks of the arguments i..last, one after the other
RECURSIVE ArgumentWalks(_, _)
ArgumentWalks(i, last) ==
    IF i > last THEN <<>>
    ELSE ArgumentOutcome(i).tr \o ArgumentWalks(i + 1, last)

\* the callee evaluated to a callable
CalleeIsCallable ==
    CalleeOutcome.ok /\ CalleeOutcome.val.t = "builtin_function_or_method"

\* C23: a Call evaluates its callee and checks that it is callable before
\* it evaluates any argument, evaluates the arguments left to right, and
\* applies the callable only after every argument evaluated; a call of a
\* value that is not callable fails as such even when an argument would fail.
CalleeThenArgumentsThenApplication ==
    IsCall =>
        /\ ~CalleeOutcome.ok =>
               /\ ~outcome.ok
               /\ outcome.tr = Enter(outcome.tree, 1) \o CalleeOutcome.tr
        /\ (CalleeOutcome.ok /\ ~CalleeIsCallable) =>
               /\ ~outcome.ok
               /\ ErrorKind(outcome.site, outcome.cause) = "NotCallableError"
               /\ outcome.tr = Enter(outcome.tree, 1) \o CalleeOutcome.tr
        /\ (CalleeIsCallable /\ FailingArguments # {}) =>
               /\ ~outcome.ok
               /\ outcome.msg = "Invalid expression: "
                                    \o ArgumentOutcome(LastEvaluated).msg
               /\ outcome.tr =
                      Enter(outcome.tree, 1) \o CalleeOutcome.tr
                          \o ArgumentWalks(1, LastEvaluated)
        /\ (CalleeIsCallable /\ FailingArguments = {}) =>
               /\ Len(outcome.tr) > 0
               /\ outcome.tr[Len(outcome.tr)].e = "apply"
               /\ outcome.tr[Len(outcome.tr)].x = CalleeOutcome.val.s
               /\ SubSeq(outcome.tr, 1, Len(outcome.tr) - 1) =
                      Enter(outcome.tree, 1) \o CalleeOutcome.tr
                          \o ArgumentWalks(1, LastEvaluated)

\* a call of the constant pi with an argument that divides by zero fails as
\* not callable, and the argument is never walked
CalleeThenArgumentsThenApplicationWitness ==
    /\ IsCall
    /\ expression = <<"pi", "(", "10", "/", "0", ")">>
    /\ ~ArgumentOutcome(1).ok
    /\ ~outcome.ok
    /\ outcome.site = "call"
    /\ Len(outcome.tr) = 2

----------------------------------------------------------------------------
(* C24: the order of the steps of a BinOp, and the fault reported. *)

\* the expression is a binary operation
IsBinOp == Called /\ outcome.tree.k = "BinOp"

\* what the operands evaluate to, each on its own
LeftOutcome == Eval(outcome.tree.c[1], operators, functions, 2)
RightOutcome == Eval(outcome.tree.c[2], operators, functions, 2)

\* the failure reported is the failure f of an operand
Reports(f) ==
    /\ ~outcome.ok
    /\ outcome.msg = "Invalid expression: " \o f.msg
    /\ outcome.site = f.site
    /\ outcome.at = f.at

\* C24: a BinOp evaluates its left operand, then its right operand, and
\* looks its operator up only when both evaluated; of several faults the
\* one reported is the first in that order, and nothing is evaluated after
\* it.
FirstFaultIsReported ==
    IsBinOp =>
        /\ ~LeftOutcome.ok =>
               /\ Reports(LeftOutcome)
               /\ outcome.tr = Enter(outcome.tree, 1) \o LeftOutcome.tr
        /\ (LeftOutcome.ok /\ ~RightOutcome.ok) =>
               /\ Reports(RightOutcome)
               /\ outcome.tr = Enter(outcome.tree, 1) \o LeftOutcome.tr
                                   \o RightOutcome.tr
        /\ (LeftOutcome.ok /\ RightOutcome.ok
            /\ outcome.tree.s \notin DOMAIN OperatorsTable) =>
               /\ ~outcome.ok
               /\ outcome.site = "binop"
               /\ outcome.tr = Enter(outcome.tree, 1) \o LeftOutcome.tr
                                   \o RightOutcome.tr
        /\ (LeftOutcome.ok /\ RightOutcome.ok
            /\ outcome.tree.s \in DOMAIN OperatorsTable) =>
               /\ outcome.tr[Len(outcome.tr)].e = "apply"
               /\ SubSeq(outcome.tr, 1, Len(outcome.tr) - 1) =
                      Enter(outcome.tree, 1) \o LeftOutcome.tr
                          \o RightOutcome.tr

\* three faults in one expression, (10 / 0) | x: the division by zero on
\* the left is reported, not the unknown name on the right nor the operator
\* outside the whitelist, and x is never walked
FirstFaultIsReportedWitness ==
    /\ IsBinOp
    /\ expression = <<"(", "10", "/", "0", ")", "|", "x">>
    /\ outcome.tree.s \notin DOMAIN OperatorsTable
    /\ ~RightOutcome.ok
    /\ outcome.cause = "ZeroDivisionError"
    /\ \A i \in DOMAIN outcome.tr : outcome.tr[i].k # "Name"

----------------------------------------------------------------------------
(* C25: keyword arguments. *)

RECURSIVE HasKeywords(_)
RECURSIVE WithoutKeywords(_)

\* a call somewhere in the tree is written with keyword arguments
HasKeywords(node) ==
    \/ node.kw # <<>>
    \/ \E i \in DOMAIN node.c : HasKeywords(node.c[i])

\* the tree with the keyword arguments of every call taken away
WithoutKeywords(node) ==
    [node EXCEPT !.kw = <<>>,
                 !.c = [i \in DOMAIN node.c |-> WithoutKeywords(node.c[i])]]

\* the same calls written with and without keyword arguments
KeywordPairs ==
    {<<<<"sqrt", "(", "16", ",", "x", "=", "unknown_var", ")">>,
       <<"sqrt", "(", "16", ")">>>>,
     <<<<"sqrt", "(", "16", ",", "**", "x", ")">>,
       <<"sqrt", "(", "16", ")">>>>,
     <<<<"round", "(", "2", ",", "x", "=", "10", "/", "0", ")">>,
       <<"round", "(", "2", ")">>>>,
     <<<<"max", "(", "x", "=", "unknown_var", ")">>, <<"max", "(", ")">>>>,
     <<<<"max", "(", "1", ",", "2", ",", "x", "=", "sqrt", ")">>,
       <<"max", "(", "1", ",", "2", ")">>>>,
     <<<<"pi", "(", "x", "=", "unknown_var", ")">>, <<"pi", "(", ")">>>>}

\* the evaluation went as the evaluation r of the call without keywords
\* goes: the same walk, and the same value or the same failure
WentAs(r) ==
    /\ outcome.ok = r.ok
    /\ outcome.val = r.val
    /\ outcome.msg = (IF r.ok THEN "" ELSE "Invalid expression: " \o r.msg)
    /\ outcome.tr = r.tr

\* C25: the keyword arguments written in a call are never evaluated and
\* never reach the function: f(args, k=v) succeeds or fails exactly as
\* f(args) does and returns the same value, whatever v is.
KeywordsAreIgnored ==
    /\ (Called /\ outcome.tree # NoNode /\ HasKeywords(outcome.tree)) =>
           WentAs(Eval(WithoutKeywords(outcome.tree), operators, functions, 1))
    /\ \A pair \in KeywordPairs :
           (Called /\ expression = pair[1]) =>
               /\ HasKeywords(outcome.tree)
               /\ AstParse(pair[2]).ok
               /\ AstParse(pair[2]).node = WithoutKeywords(outcome.tree)

\* sqrt(16, x=unknown_var) answers 4.0 as sqrt(16) does, although
\* unknown_var is no name of the whitelist
KeywordsAreIgnoredWitness ==
    /\ Called
    /\ expression = <<"sqrt", "(", "16", ",", "x", "=", "unknown_var", ")">>
    /\ Len(outcome.tree.kw) = 1
    /\ outcome.ok
    /\ outcome.val = FloatV(4, 1)
    /\ outcome.val = Evaluate(<<"sqrt", "(", "16", ")">>, operators, functions).val

----------------------------------------------------------------------------
(* C26: the two entry points of the calculator. *)

----------------------------------------------------------------------------
(* C27: a request that names no tool of the registry. *)

\* the last call was a request to one of the two routes that take a tool
\* name, and the name it gave
ToolRequested == reply.op \in {"execute_tool", "get_tool_info"}

RequestedName ==
    IF reply.raised \/ reply.op = "get_tool_info" THEN reply.value[1]
    ELSE reply.value.tool_name

\* C27, as claimed: a request that names a tool the registry does not hold
\* is answered with HTTP 404 "Tool '<name>' not found" by POST
\* /tools/execute and by GET /tools/{tool_name}, not with a 500 nor with a
\* normal response of status 'error'.
UnknownToolIsNotFound ==
    (ToolRequested /\ ~GetTool(registry, RequestedName).ok) =>
        /\ reply.raised
        /\ reply.status = 404
        /\ reply.detail = "Tool '" \o RequestedName \o "' not found"

----------------------------------------------------------------------------
(* C28: the default tools are registered once. *)

\* the names of the default tools
DefaultNames == {DefaultTools[i].name : i \in DOMAIN DefaultTools}

\* the names a list of tools or of names holds
NamesOf(list) ==
    {IF reply.op = "list_tools" THEN list[i] ELSE list[i].name : i \in DOMAIN list}

\* after a call of any method but register_tool the registry is
\* initialized; an initialized registry has had its default tools
\* registered in one run of _register_default_tools, and whatever has been
\* called since, it and the lists it answers hold the three default names
InitializedByFirstAccess ==
    /\ reply.op \notin {"", "register_tool"} => registry.initialized
    /\ registry.defaults = (IF registry.initialized THEN 1 ELSE 0)
    /\ registry.initialized =>
           DefaultNames \subseteq {Keys(registry)[i] : i \in DOMAIN Keys(registry)}
    /\ reply.op \in {"get_all_tools", "get_function_tools", "list_tools"} =>
           DefaultNames \subseteq NamesOf(reply.value)

\* _initialized never goes back to false; a call sets it exactly when it is
\* a call of a method other than register_tool, and that call is the one
\* that registers the default tools
InitializedForGood ==
    /\ registry'.initialized <=>
           (registry.initialized \/ reply'.op # "register_tool")
    /\ registry'.defaults # registry.defaults =>
           /\ ~registry.initialized /\ registry'.initialized
           /\ \A i \in DOMAIN DefaultTools :
                  GetTool(registry', DefaultTools[i].name).val = DefaultTools[i]

\* C28: in every sequence of calls of set_quiet_mode, get_tool,
\* get_all_tools, get_function_tools, list_tools and register_tool,
\* _initialized turns true at the first call of any of the first five and
\* stays true, the three default tools are registered at that moment and not
\* again, and from then on every accessor sees all three names.
DefaultToolsRegisteredOnce ==
    []InitializedByFirstAccess /\ [][InitializedForGood]_vars

\* a registry made quiet, then given a tool of another name, then listed:
\* one default registration, four names
DefaultToolsRegisteredOnceWitness ==
    /\ registry.initialized
    /\ registry.quiet
    /\ registry.defaults = 1
    /\ reply.op = "list_tools"
    /\ reply.value = <<"get_weather", "calculate", "search_web", "echo">>

----------------------------------------------------------------------------
(* C29: the last registration under a name wins. *)

\* the tool the registry holds under `name` (none: the empty tuple)
Held(reg, name) == IF GetTool(reg, name).ok THEN <<GetTool(reg, name).val>> ELSE <<>>

\* get_tool answers the tool the registry holds under the name
GetToolAnswersHeld ==
    (reply.op = "get_tool" /\ ~reply.raised) =>
        <<reply.value[2]>> = Held(registry, reply.value[1])

\* what a step does to the tools held: register_tool puts its tool under the
\* tool's name and leaves the other names alone; the first call of another
\* method puts the default tools under their names, over whatever was
\* registered there before, and leaves the other names alone; any later
\* call leaves every name alone.  No step removes a name.
LastRegistrationHolds ==
    /\ reply'.op = "register_tool" =>
           \A name \in ToolNames :
               Held(registry', name) =
                   IF name = reply'.value[1].name THEN <<reply'.value[1]>>
                   ELSE Held(registry, name)
    /\ (reply'.op # "register_tool" /\ ~registry.initialized) =>
           \A name \in ToolNames :
               Held(registry', name) =
                   IF name \in DefaultNames
                   THEN <<CHOOSE t \in {DefaultTools[i] : i \in DOMAIN DefaultTools} :
                              t.name = name>>
                   ELSE Held(registry, name)
    /\ (reply'.op # "register_tool" /\ registry.initialized) =>
           \A name \in ToolNames : Held(registry', name) = Held(registry, name)
    /\ \A name \in ToolNames : Held(registry, name) # <<>> => Held(registry', name) # <<>>

\* C29: in ToolRegistry the last registration under a name wins, the
\* default registration counting as made at the first accessor call: a tool
\* registered under a default tool's name before that call is replaced by
\* the default tool, one registered after it replaces the default tool for
\* every later get_tool, and a tool under any other name is never removed.
LastRegistrationWins ==
    []GetToolAnswersHeld /\ [][LastRegistrationHolds]_vars

\* both cases at once: another tool was registered as calculate before the
\* first accessor call (calculate is the first key of the dict) and was
\* replaced by calculator_tool; get_weather was registered anew afterwards,
\* and get_tool answers the default for the one and would answer the other
\* tool for a name registered later
LastRegistrationWinsWitness ==
    /\ registry.initialized
    /\ Keys(registry) = <<"calculate", "echo", "get_weather", "search_web">>
    /\ reply.op = "get_tool"
    /\ reply.value = <<"calculate", DefaultTools[2]>>
    /\ Held(registry, "echo") = <<[name |-> "echo", impl |-> "other_tool"]>>

\* another tool registered as calculate after the default registration is
\* what get_tool answers from then on
ReplacedAfterInitialization ==
    /\ registry.initialized
    /\ Keys(registry) = <<"get_weather", "calculate", "search_web">>
    /\ reply.op = "get_tool"
    /\ reply.value = <<"calculate", [name |-> "calculate", impl |-> "other_tool"]>>

----------------------------------------------------------------------------
(* C30: the conversation history holds the completed queries. *)

\* the callers whose query waits in `await Runner.run`
Awaiting(svc) == {p \in TaskIds : svc.calls[p].at = "awaiting"}

\* the history is the queries that returned since it was last cleared, in
\* the order they returned; what is raised is an AgentError
HistoryIsReturned ==
    /\ service.history = service.returned
    /\ reply.raised => reply.detail = "AgentError"

\* a step that ends a query appends the entry of the answer it returns, or
\* raises and leaves the history as it was; clear_conversation_history
\* empties it; no other step writes it
HistoryStep ==
    /\ (Awaiting(service') # Awaiting(service) /\ Awaiting(service') \subseteq Awaiting(service)) =>
           IF reply'.raised
           THEN service'.history = service.history
           ELSE /\ service'.history = Append(service.history, reply'.value[1])
                /\ \E p \in Awaiting(service) \ Awaiting(service') :
                       /\ reply'.value[1].query = service.calls[p].query
                       /\ reply'.value[1].type = service.calls[p].type
                       /\ reply'.op = MethodOf(service.calls[p].type)
    /\ ~(Awaiting(service') \subseteq Awaiting(service)) =>
           service'.history = service.history
    /\ Awaiting(service') = Awaiting(service) =>
           \/ service'.history = service.history
           \/ reply'.op = "clear_conversation_history" /\ service'.history = <<>>
    /\ (reply'.raised /\ reply' # reply) => service'.history = service.history

\* C30: AgentService records a query in its conversation history only when
\* the query completed: after any sequence of its query methods and
\* clear_conversation_history the history is the queries that returned
\* since the last clear, in completion order, and a query that fails
\* raises AgentError and leaves the history unchanged.
OnlyCompletedQueriesRecorded ==
    []HistoryIsReturned /\ [][HistoryStep]_vars

\* two queries returned, process_message before run_weather_query, a third
\* failed with AgentError and a fourth is still waiting for its agent
OnlyCompletedQueriesRecordedWitness ==
    /\ Len(service.history) = 2
    /\ service.history[1].type = "api"
    /\ service.history[2].type = "weather"
    /\ reply.raised
    /\ reply.op = "run_custom_query"
    /\ Awaiting(service) # {}

====
